---- MODULE Spec2Model ----
(***************************************************************************)
(* Article lifecycle pipeline of the AI news aggregator:                   *)
(*   fetch_news.py        create_url_hash, insert_articles                 *)
(*   filter_content.py    filter_article, process_articles, cleanup        *)
(*   summarize_articles.py generate_summary, process_articles              *)
(*   purge_data.py        purge_old_articles, main                         *)
(* The article store (Supabase/PostgREST) is modelled by the queries the   *)
(* scripts issue against it.  Time is counted in whole days.               *)
(***************************************************************************)
EXTENDS Integers, Sequences, FiniteSets, TLC

VARIABLES
    articles,      \* the articles table: id -> row, or NoRow
    nextId,        \* next id the store assigns
    now,           \* current day
    f_pc,          \* filter run: "idle" | "loop" | "attempt"
    f_batch,       \* filter run: ids still to process, in the store's order
    f_attempt,     \* filter_article: number of the attempt about to be made
    f_last_error,  \* filter_article: last_error
    f_sleeps,      \* filter_article: the delays slept in its except branch so far
    f_calls,       \* model calls made for the article being filtered
    f_results,     \* filter run: the articles it found and its results counters
    f_last,        \* what the filter loop did with the article it handled last
    s_pc,          \* summarizer run: "idle" | "loop" | "attempt"
    s_batch,       \* summarizer run: ids still to process
    s_attempt,     \* generate_summary: index of the attempt about to be made
    s_seen,        \* generate_summary: what each call so far gave
    s_sleeps,      \* generate_summary: the delays slept in its except branch so far
    s_last,        \* what the summarizer loop did with the article it handled last
    p_pc,          \* retention run: "idle" | "phase1" | "phase2" | "final" | "aux" |
                   \* "metrics" | "record"
    p_cutoff,      \* purge_old_articles: cutoff day
    p_old_count,   \* purge_old_articles: old_article_count
    p_total,       \* purge_old_articles: total_deleted
    p_stats,       \* purge_old_articles: stats
    p_trace,       \* retention run: what happened in it so far
    i_pc,          \* fetch run: "idle" | "run"
    ins_last,      \* fetch run: what the last upsert of insert_articles did
    url1,          \* create_url_hash: a URL
    url2,          \* create_url_hash: a variant of url1
    r_in,          \* parse_filter_response: the response handed to it
    r_out,         \* parse_filter_response: what it gave
    c_in,          \* categorize_article: title and description
    c_out,         \* categorize_article: what it gave
    fetch_logs,    \* the fetch_logs table: the days its rows were created on
    storage_metrics \* the storage_metrics table: the days its rows were measured on

vars == <<articles, nextId, now, f_pc, f_batch, f_attempt, f_last_error, f_sleeps,
          f_calls, f_last, f_results, s_pc, s_batch, s_attempt, s_seen, s_sleeps, s_last,
          p_pc, p_cutoff, p_old_count,
          p_total, p_stats, p_trace, i_pc, ins_last, url1, url2, r_in, r_out,
          c_in, c_out, fetch_logs, storage_metrics>>

filterVars == <<f_pc, f_batch, f_attempt, f_last_error, f_sleeps, f_calls, f_last,
                f_results>>
sumVars    == <<s_pc, s_batch, s_attempt, s_seen, s_sleeps, s_last>>
purgeVars  == <<p_pc, p_cutoff, p_old_count, p_total, p_stats, p_trace>>
fetchVars  == <<i_pc, ins_last>>
urlVars    == <<url1, url2>>
parseVars  == <<r_in, r_out>>
catVars    == <<c_in, c_out>>
tableVars  == <<fetch_logs, storage_metrics>>

-----------------------------------------------------------------------------
(* Bounds of the model *)

\* ids the store has to give
MaxId == 3
\* rows inserted in one behaviour of the pipeline
MaxInserts == 2
\* last day of a behaviour
MaxTime == 2
\* longest URL, in tokens
MaxUrlLen == 4

(* Tunables of the program, scaled to the size of the model *)

\* config.py:30 sets 30
MAX_ARTICLE_AGE_DAYS == 1
\* config.py:35 sets 1000
MAX_ARTICLES_COUNT == 1
\* purge_data.py:94 sets 100
batch_size == 2
\* purge_data.py:120 adds 100
SAFETY_MARGIN == 2
\* config.py:38 sets 7
LOG_RETENTION_DAYS == 1
\* config.py:41 sets 30
METRICS_RETENTION_DAYS == 1
\* filter_content.py:39 sets 100
BATCH_SIZE == 2
\* summarize_articles.py:35 sets 50
SUM_BATCH_SIZE == 2
\* tokens of the error text kept in filter_reason (filter_content.py has 50
\* characters)
ERROR_TEXT_MAX == 3
\* containers json.loads scans one inside the other before the interpreter
\* raises RecursionError (CPython allows some 1000 frames)
RECURSION_LIMIT == 2

(* Tunables of the program, as in the source *)

MAX_RETRIES == 3
MIN_RELEVANCE_SCORE == 6
MIN_CONTENT_LENGTH == 50
SUM_MIN_CONTENT_LENGTH == 100
SUM_MIN_WORDS == 50
SUM_MAX_WORDS == 75
\* the delays are in milliseconds
RATE_LIMIT_DELAY == 4500
\* the numbers an error message can carry
NumberOf == [n \in {"21", "442"} |-> IF n = "21" THEN 21 ELSE 442]

NULL == -1
\* a call that raised, among the word counts of the texts the calls returned
RAISED == -2
NoRow == [id |-> 0]
NoItem == [id |-> 0]
Ids == 1..MaxId

-----------------------------------------------------------------------------
(* Sequences *)

Take(s, n) == SubSeq(s, 1, IF n < Len(s) THEN n ELSE Len(s))

Range(s) == {s[i] : i \in 1..Len(s)}

\* every arrangement of the set S in a sequence
Arrangements(S) ==
    {f \in [1..Cardinality(S) -> S] : \A i, j \in 1..Cardinality(S) : i # j => f[i] # f[j]}

-----------------------------------------------------------------------------
(* create_url_hash.  A URL is a sequence of tokens: "a" a lower-case       *)
(* character, "A" its upper case, "/", "?", "&", and the keys of query     *)
(* parameters with their "=" sign: the five tracking parameters and "id="  *)
(* (a parameter that is kept).  URLs carry no surrounding white space.     *)

\* tracking_params, in the order of the list
tracking_params == <<"utm_source=", "utm_medium=", "utm_campaign=", "ref=", "source=">>
TrackingKeys == {tracking_params[i] : i \in 1..Len(tracking_params)}
Tokens == {"a", "A", "/", "?", "&", "id="} \cup TrackingKeys

\* str.lower()
Lower(u) ==
    LET lower == [A |-> "a", ML |-> "ml", ROBOT |-> "robot", RESEARCH |-> "research"]
    IN  [i \in 1..Len(u) |-> IF u[i] \in DOMAIN lower THEN lower[u[i]] ELSE u[i]]

\* str.rstrip('/'): every trailing slash goes
RECURSIVE RStripSlash(_)
RStripSlash(u) ==
    IF Len(u) > 0 /\ u[Len(u)] = "/" THEN RStripSlash(SubSeq(u, 1, Len(u) - 1)) ELSE u

\* length of the match of [^&]* at position i
RECURSIVE ValueLen(_, _)
ValueLen(u, i) ==
    IF i > Len(u) \/ u[i] = "&" THEN 0 ELSE 1 + ValueLen(u, i + 1)

\* re.sub(rf'[?&]{param}=[^&]*', '', u), scanning from position i
RECURSIVE SubParam(_, _, _)
SubParam(u, key, i) ==
    IF i > Len(u) THEN <<>>
    ELSE IF u[i] \in {"?", "&"} /\ i < Len(u) /\ u[i + 1] = key
         THEN SubParam(u, key, i + 2 + ValueLen(u, i + 2))
         ELSE <<u[i]>> \o SubParam(u, key, i + 1)

\* re.sub(r'\?&', '?', u), scanning from position i
RECURSIVE SubQuestionAmp(_, _)
SubQuestionAmp(u, i) ==
    IF i > Len(u) THEN <<>>
    ELSE IF u[i] = "?" /\ i < Len(u) /\ u[i + 1] = "&"
         THEN <<"?">> \o SubQuestionAmp(u, i + 2)
         ELSE <<u[i]>> \o SubQuestionAmp(u, i + 1)

\* re.sub(r'\?$', '', u)
SubTrailingQuestion(u) ==
    IF Len(u) > 0 /\ u[Len(u)] = "?" THEN SubSeq(u, 1, Len(u) - 1) ELSE u

\* the for loop over tracking_params, from the k-th on
RECURSIVE RemoveTracking(_, _)
RemoveTracking(u, k) ==
    IF k > Len(tracking_params) THEN u
    ELSE RemoveTracking(SubParam(u, tracking_params[k], 1), k + 1)

\* the normalized string; the digest of it is the key (SHA-256 taken as injective)
create_url_hash(url) ==
    SubTrailingQuestion(SubQuestionAmp(RemoveTracking(RStripSlash(Lower(url)), 1), 1))

-----------------------------------------------------------------------------
(* URLs and their variants *)

Letters == {"a", "A"}
Keys == {"id="} \cup TrackingKeys

\* paths of up to three tokens, starting with a letter
Paths ==
    {<<c>> : c \in Letters}
    \cup {<<c, d>> : c \in Letters, d \in Letters \cup {"/"}}
    \cup {<<c, d, e>> : c \in Letters, d \in Letters \cup {"/"}, e \in Letters \cup {"/"}}

\* a query parameter: its key, and a value of at most one character
Params == {<<k>> : k \in Keys} \cup {<<k, c>> : k \in Keys, c \in Letters}

TrackingParams == {p \in Params : p[1] \in TrackingKeys}

BaseUrls ==
    {u \in Paths : Len(u) <= MaxUrlLen}
    \cup {u \in {p \o <<"?">> \o q : p \in Paths, q \in Params} : Len(u) <= MaxUrlLen}

\* u with the sequence ins put in before position i
InsertAt(u, i, ins) == SubSeq(u, 1, i - 1) \o ins \o SubSeq(u, i, Len(u))

HasQuery(u) == \E i \in 1..Len(u) : u[i] = "?"

\* the URLs that are u with the tracking parameter tp added to its query string
WithTracking(u, tp) ==
    IF ~HasQuery(u) THEN {u \o <<"?">> \o tp}
    ELSE {InsertAt(u, i, tp \o <<"&">>) : i \in {j \in 2..Len(u) : u[j - 1] = "?"}}
         \cup {InsertAt(u, i, <<"&">> \o tp) : i \in {j \in 1..Len(u) : u[j] = "&"}}
         \cup {u \o <<"&">> \o tp}

\* u with the case of the letter at position i changed
WithCase(u, i) == [u EXCEPT ![i] = IF u[i] = "a" THEN "A" ELSE "a"]

\* u with the value of the tracking parameter whose key is at position i changed
WithValue(u, i) ==
    IF i < Len(u) /\ u[i + 1] \in Letters
    THEN SubSeq(u, 1, i) \o SubSeq(u, i + 2, Len(u))
    ELSE InsertAt(u, i + 1, <<"a">>)

-----------------------------------------------------------------------------
(* The articles table *)

\* a candidate record as fetch_rss_feed / fetch_from_newsapi build it
Candidate(url, published_at, content_len) ==
    [url_hash |-> create_url_hash(url), category |-> "general",
     published_at |-> published_at, fetched_at |-> now, content_len |-> content_len]

\* the row the store makes of a candidate: the columns the scripts never set
\* on insert take the schema's defaults
NewRow(id, c) ==
    [id |-> id, url_hash |-> c.url_hash, category |-> c.category,
     published_at |-> c.published_at, fetched_at |-> c.fetched_at, created_at |-> now,
     fetched_early |-> FALSE,
     content_len |-> c.content_len,
     is_filtered |-> FALSE, is_approved |-> FALSE, detected_language |-> "NULL",
     relevance_score |-> NULL, filter_reason |-> <<>>,
     is_summarized |-> FALSE, summary_60 |-> NULL, summary_generated_at |-> NULL,
     is_deleted |-> FALSE]

Rows == {i \in Ids : articles[i] # NoRow}

\* .delete().in_('id', ids)
DeleteIds(ids) == [i \in Ids |-> IF i \in ids THEN NoRow ELSE articles[i]]

\* upsert(article, on_conflict='url_hash', ignore_duplicates=True), plain insert
InsertAlways(c) ==
    IF nextId <= MaxInserts
    THEN /\ articles' = [articles EXCEPT ![nextId] = NewRow(nextId, c)]
         /\ nextId' = nextId + 1
    ELSE UNCHANGED <<articles, nextId>>

Upsert(c) ==
    IF \E i \in Rows : articles[i].url_hash = c.url_hash
    THEN UNCHANGED <<articles, nextId>>
    ELSE InsertAlways(c)

-----------------------------------------------------------------------------
(* The store's queries *)

\* the sequences a query can return for the rows of S: ordered by Before (a strict
\* order on ids; rows it does not order come in any order), cut at limit
Query(S, Before(_, _), limit) ==
    {Take(f, limit) : f \in {g \in Arrangements(S) :
        \A i, j \in 1..Len(g) : i < j => ~Before(g[j], g[i])}}

\* .order('fetched_at', desc=True)
FetchedDesc(i, j) == articles[i].fetched_at > articles[j].fetched_at

\* no .order()
Unordered(i, j) == FALSE

\* .order('published_at', desc=False).order('created_at', desc=False); the store
\* puts NULL last in an ascending order
PublishedAsc(i, j) ==
    LET pi == articles[i].published_at
        pj == articles[j].published_at
    IN  \/ pi # NULL /\ pj = NULL
        \/ pi # NULL /\ pj # NULL /\ pi < pj
        \/ pi = pj /\ articles[i].created_at < articles[j].created_at

\* what the filter and summarizer loops keep of a selected row
Item(i) == [id |-> i, content_len |-> articles[i].content_len]

Items(q) == [k \in 1..Len(q) |-> Item(q[k])]

\* fetch_unfiltered_articles, the select without the is_filtered condition
fetch_unfiltered_any(limit) ==
    {Items(q) : q \in Query({i \in Rows : ~articles[i].is_deleted}, FetchedDesc, limit)}
        \cup {<<>>}

\* fetch_unfiltered_articles with .limit(1)
fetch_unfiltered_first(limit) ==
    {Items(q) : q \in Query({i \in Rows : ~articles[i].is_filtered /\ ~articles[i].is_deleted},
                            FetchedDesc, 1)}
        \cup {<<>>}

\* the last member is the except branch: the store call raised
fetch_unfiltered_articles(limit) ==
    {Items(q) : q \in Query({i \in Rows : ~articles[i].is_filtered /\ ~articles[i].is_deleted},
                            FetchedDesc, limit)}
        \cup {<<>>}

\* fetch_approved_unsummarized_articles, the select without the is_approved condition
fetch_unsummarized_any(limit) ==
    {Items(q) : q \in Query({i \in Rows : ~articles[i].is_summarized /\ ~articles[i].is_deleted},
                            FetchedDesc, limit)}
        \cup {<<>>}

fetch_approved_unsummarized_articles(limit) ==
    {Items(q) : q \in Query({i \in Rows : /\ articles[i].is_approved
                                          /\ ~articles[i].is_summarized
                                          /\ ~articles[i].is_deleted},
                            FetchedDesc, limit)}
        \cup {<<>>}

-----------------------------------------------------------------------------
(* filter_article *)

\* a parsed model response: the keys of the object; "absent" (NULL for the
\* score) is a key the object does not have
ABSENT == "absent"

Response(language, is_english, relevance_score, is_relevant, category, reason) ==
    [language |-> language, is_english |-> is_english,
     relevance_score |-> relevance_score, is_relevant |-> is_relevant,
     category |-> category, reason |-> reason]

\* the object with no key; also stands for no object at all
NoResponse == Response(ABSENT, ABSENT, NULL, ABSENT, ABSENT, ABSENT)

\* dict.get(key, default)
Get(v, default) == IF v = ABSENT THEN default ELSE v

\* bool(result): an object with no key is falsy
NonEmpty(r) ==
    \/ r.language # ABSENT \/ r.is_english # ABSENT \/ r.relevance_score # NULL
    \/ r.is_relevant # ABSENT \/ r.category # ABSENT \/ r.reason # ABSENT

\* a text is a sequence of tokens; a one-token text
Text(t) == <<t>>

default_result ==
    [is_approved |-> FALSE, detected_language |-> "unknown", relevance_score |-> 0,
     filter_reason |-> Text("Failed to analyze"), category |-> "general"]

too_short_result == [default_result EXCEPT !.filter_reason = Text("Content too short")]

\* last_error of filter_article: None, or the exception of the last failed attempt
no_error == [raised |-> FALSE, msg |-> <<>>]
Raised(msg) == [raised |-> TRUE, msg |-> msg]

\* the reason with the whole error text
api_error_untruncated(last_error) ==
    [default_result EXCEPT !.filter_reason = Text("API error: ") \o last_error.msg]

\* f'API error: {str(last_error)[:50]}'
api_error_result(last_error) ==
    [default_result EXCEPT
        !.filter_reason = Text("API error: ") \o Take(last_error.msg, ERROR_TEXT_MAX)]

\* the default result, had it approved the article
after_loop_approving(last_error) == [default_result EXCEPT !.is_approved = TRUE]

\* what filter_article returns after its loop
after_loop(last_error) ==
    IF last_error.raised THEN api_error_result(last_error) ELSE default_result

\* re.search(r'retry in (\d+(?:\.\d+)?)s', msg) and its like: the number of the
\* first place of msg where the tokens before, number, unit stand in a row; 0: none
Hint(msg, before, unit) ==
    LET at == {i \in 1..(Len(msg) - 2) :
                  msg[i] = before /\ msg[i + 1] \in DOMAIN NumberOf /\ msg[i + 2] = unit}
    IN  IF at = {} THEN 0
        ELSE NumberOf[msg[(CHOOSE i \in at : \A j \in at : i <= j) + 1]]

\* _parse_retry_delay, in milliseconds
parse_retry_delay(error_msg) ==
    IF Hint(error_msg, "retry in ", "s") > 0
    THEN Hint(error_msg, "retry in ", "s") * 1000
    ELSE IF Hint(error_msg, "retry in ", "ms") > 0
    THEN Hint(error_msg, "retry in ", "ms")
    ELSE IF Hint(error_msg, "retryDelay: ", "s") > 0
    THEN Hint(error_msg, "retryDelay: ", "s") * 1000
    ELSE 0

\* the sleep of the except branch of filter_article
sleep_after_error(error_msg) == RATE_LIMIT_DELAY

\* the decision without the threshold on the score
DecisionNoThreshold(r) ==
    [is_approved |-> r.is_english = "true" /\ r.is_relevant = "true",
     detected_language |-> Get(r.language, "unknown"),
     relevance_score |-> IF r.relevance_score = NULL THEN 0 ELSE r.relevance_score,
     filter_reason |-> Text(Get(r.reason, "No reason provided")),
     category |-> Get(r.category, "general")]

\* the dict returned for a parsed response
Decision(r) ==
    LET is_english == Get(r.is_english, "false") = "true"
        relevance_score == IF r.relevance_score = NULL THEN 0 ELSE r.relevance_score
        is_relevant == Get(r.is_relevant, "false") = "true"
                       /\ relevance_score >= MIN_RELEVANCE_SCORE
    IN  [is_approved |-> is_english /\ is_relevant,
         detected_language |-> Get(r.language, "unknown"),
         relevance_score |-> relevance_score,
         filter_reason |-> Text(Get(r.reason, "No reason provided")),
         category |-> Get(r.category, "general")]

-----------------------------------------------------------------------------
(* Inputs *)

\* stripped text lengths of the articles a feed supplies
ContentLens == {0, 49, 50, 120}
LifecycleLens == {30, 120}

\* parsed responses the model can give
FilterResponses ==
    {Response(l, e, sc, r, "robotics", "why") :
        l \in {"en", "fr", ABSENT}, e \in {"true", "false", ABSENT},
        sc \in {NULL, 5, 6}, r \in {"true", "false", ABSENT}}
    \cup {Response("en", "true", 9, "true", ABSENT, ABSENT)}
    \cup {Response("en", "true", 5, "false", "general", "Content too short")}
    \cup {Response("en", "true", 11, "true", "robotics", "why")}
    \cup {NoResponse}

LifecycleResponses ==
    {Response("en", "true", 9, "true", "robotics", "why"),
     Response("fr", "false", 5, "false", ABSENT, "why")}

\* word counts of the texts the summary model can give
\* the texts of the errors a call raises: no hint, the three hints
\* _parse_retry_delay knows, a text longer than filter_reason keeps
FilterErrors ==
    {<<"quota">>, <<"Please ", "retry in ", "21", "s">>, <<"retry in ", "442", "ms">>,
     <<"retryDelay: ", "21", "s">>, [i \in 1..(ERROR_TEXT_MAX + 2) |-> "x"]}
LifecycleErrors == {<<"quota">>}

SummaryWords == {42, 50, 60, 75, 76}
LifecycleWords == {42, 60}

\* the URLs the feeds of a lifecycle behaviour carry
LifecycleUrls == {<<"a">>, <<"a", "/">>, <<"A", "a">>}

-----------------------------------------------------------------------------
(* The runs take turns: a run starts when no other is under way *)

AllIdle == i_pc = "idle" /\ f_pc = "idle" /\ s_pc = "idle" /\ p_pc = "idle"

-----------------------------------------------------------------------------
(* fetch_news.py: insert_articles, one article of its loop *)

no_insert == [url_hash |-> <<>>, outcome |-> "none"]

FetchStart ==
    /\ AllIdle
    /\ i_pc' = "run"
    /\ UNCHANGED <<articles, nextId, now, ins_last, filterVars, sumVars, purgeVars, urlVars, parseVars, catVars, tableVars>>

Insert(url, published_at, content_len) ==
    LET c == Candidate(url, published_at, content_len)
        dup == \E i \in Rows : articles[i].url_hash = c.url_hash
    IN  /\ i_pc = "run"
        /\ dup \/ nextId <= MaxInserts
        /\ \/ /\ Upsert(c)
              /\ ins_last' = [url_hash |-> c.url_hash,
                              outcome |-> IF articles' # articles THEN "added" ELSE "skipped"]
           \/ /\ UNCHANGED <<articles, nextId>>     \* the upsert raised
              /\ ins_last' = [url_hash |-> c.url_hash, outcome |-> "error"]
        /\ UNCHANGED <<now, i_pc, filterVars, sumVars, purgeVars, urlVars, parseVars, catVars, tableVars>>

FetchEnd ==
    /\ i_pc = "run"
    /\ i_pc' = "idle"
    /\ ins_last' = no_insert
    /\ UNCHANGED <<articles, nextId, now, filterVars, sumVars, purgeVars, urlVars, parseVars, catVars, tableVars>>

\* create_fetch_log, once a source of the run is done: a row of today is added
\* (an insert that raises is logged and leaves the table as it is)
create_fetch_log ==
    /\ i_pc = "run"
    /\ now \notin fetch_logs
    /\ fetch_logs' = fetch_logs \cup {now}
    /\ UNCHANGED <<articles, nextId, now, filterVars, sumVars, purgeVars, fetchVars,
                   urlVars, parseVars, catVars, storage_metrics>>

\* monitor_storage.py, record_metrics: a row of today is added; the row that
\* the store's record_storage_metrics adds for vacuum_database is such a row
record_metrics ==
    /\ AllIdle
    /\ now \notin storage_metrics
    /\ storage_metrics' = storage_metrics \cup {now}
    /\ UNCHANGED <<articles, nextId, now, filterVars, sumVars, purgeVars, fetchVars,
                   urlVars, parseVars, catVars, fetch_logs>>

Tick ==
    /\ AllIdle
    /\ now < MaxTime
    /\ now' = now + 1
    /\ UNCHANGED <<articles, nextId, filterVars, sumVars, purgeVars, fetchVars, urlVars, parseVars, catVars, tableVars>>

-----------------------------------------------------------------------------
(* filter_content.py: process_articles *)

\* update_article_filter, had update_data no 'is_filtered' key
update_article_filter_unflagged(id, r) ==
    IF articles[id] = NoRow THEN articles
    ELSE [articles EXCEPT ![id] =
            [@ EXCEPT !.is_approved = r.is_approved,
                      !.detected_language = r.detected_language,
                      !.relevance_score = r.relevance_score,
                      !.filter_reason = r.filter_reason,
                      !.category = r.category]]

\* update_article_filter: the row after the update
update_article_filter(id, r) ==
    IF articles[id] = NoRow THEN articles
    ELSE [articles EXCEPT ![id] =
            [@ EXCEPT !.is_filtered = TRUE, !.is_approved = r.is_approved,
                      !.detected_language = r.detected_language,
                      !.relevance_score = r.relevance_score,
                      !.filter_reason = r.filter_reason,
                      !.category = r.category]]

\* .lt('fetched_at', datetime.now(timezone.utc).replace(hour=0, minute=0,
\* second=0)): replace() keeps the microsecond of now(), so the bound lies up to
\* a second after the start of the day 'now'.  fetched_early: the row was
\* fetched within the first second of its day; late_us: the microsecond of
\* now() is beyond the microsecond of such a row
before_today(row, late_us) ==
    \/ row.fetched_at < now
    \/ row.fetched_at = now /\ row.fetched_early /\ late_us

\* delete_rejected_articles with .delete() in place of its .update()
delete_rejected_rows(late_us) ==
    [i \in Ids |->
        IF /\ articles[i] # NoRow
           /\ articles[i].is_filtered
           /\ ~articles[i].is_approved
           /\ before_today(articles[i], late_us)
        THEN NoRow
        ELSE articles[i]]

\* delete_rejected_articles: the table after the update
delete_rejected_articles(late_us) ==
    [i \in Ids |->
        IF /\ articles[i] # NoRow
           /\ articles[i].is_filtered
           /\ ~articles[i].is_approved
           /\ before_today(articles[i], late_us)
        THEN [articles[i] EXCEPT !.is_deleted = TRUE]
        ELSE articles[i]]

\* the pacing sleep is never skipped
AlwaysPaced(r) == FALSE

\* the pacing sleep of the loop is skipped for this result
NoPacing(r) == r.filter_reason = Text("Content too short")

\* the counter of results the loop adds one to, after an update that went
\* through (ok) or not
Counted(r, ok) ==
    IF ~ok THEN "failed"
    ELSE IF r.is_approved THEN "approved"
    ELSE IF r.filter_reason = Text("Content too short") THEN "rejected_short"
    ELSE IF r.detected_language \notin {"en", "unknown"} THEN "rejected_language"
    ELSE IF r.detected_language = "unknown" THEN "failed"
    ELSE "rejected_relevance"

\* the results of a run before its loop; found: the ids of the articles of
\* its batch
no_results ==
    [found |-> <<>>, processed |-> 0, approved |-> 0, rejected_language |-> 0,
     rejected_relevance |-> 0, rejected_short |-> 0, failed |-> 0]

\* the counting of the loop body without its else branch
count_updated_only(results, r, ok) ==
    IF ok
    THEN [results EXCEPT !.processed = @ + 1, ![Counted(r, TRUE)] = @ + 1]
    ELSE results

\* the counting of the loop body: after an update that went through,
\* 'processed' and the counter of the decision; else 'failed'
count_result(results, r, ok) ==
    IF ok
    THEN [results EXCEPT !.processed = @ + 1, ![Counted(r, TRUE)] = @ + 1]
    ELSE [results EXCEPT !.failed = @ + 1]

\* the loop body, had a failed update ended the run
FilterFinishAbort(r, calls, resp, last_error, sleeps) ==
    \E ok \in BOOLEAN :
        /\ articles' = IF ok THEN update_article_filter(Head(f_batch).id, r) ELSE articles
        /\ f_last' = [id |-> Head(f_batch).id, content_len |-> Head(f_batch).content_len,
                      result |-> r, calls |-> calls, paced |-> ~NoPacing(r),
                      updated |-> ok, parsed |-> NonEmpty(resp), resp |-> resp,
                      error |-> last_error, sleeps |-> sleeps, counted |-> Counted(r, ok)]
        /\ f_results' = count_result(f_results, r, ok)
        /\ f_batch' = IF ok THEN Tail(f_batch) ELSE f_batch
        /\ f_pc' = IF ok THEN "loop" ELSE "idle"
        /\ f_attempt' = 0
        /\ f_last_error' = no_error
        /\ f_sleeps' = <<>>
        /\ f_calls' = 0

\* the loop body, had a failed update still written its row
FilterFinishWritten(r, calls, resp, last_error, sleeps) ==
    \E ok \in BOOLEAN :
        /\ articles' = update_article_filter(Head(f_batch).id, r)
        /\ f_last' = [id |-> Head(f_batch).id, content_len |-> Head(f_batch).content_len,
                      result |-> r, calls |-> calls, paced |-> ~NoPacing(r),
                      updated |-> ok, parsed |-> NonEmpty(resp), resp |-> resp,
                      error |-> last_error, sleeps |-> sleeps, counted |-> Counted(r, ok)]
        /\ f_results' = count_result(f_results, r, ok)
        /\ f_batch' = Tail(f_batch)
        /\ f_pc' = "loop"
        /\ f_attempt' = 0
        /\ f_last_error' = no_error
        /\ f_sleeps' = <<>>
        /\ f_calls' = 0

\* the loop body after filter_article returned r: the update (which may raise
\* inside update_article_filter), the count, the pacing sleep, the next article
FilterFinish(r, calls, resp, last_error, sleeps) ==
    \E ok \in BOOLEAN :
        /\ articles' = IF ok THEN update_article_filter(Head(f_batch).id, r) ELSE articles
        /\ f_last' = [id |-> Head(f_batch).id, content_len |-> Head(f_batch).content_len,
                      result |-> r, calls |-> calls, paced |-> ~NoPacing(r),
                      updated |-> ok, parsed |-> NonEmpty(resp), resp |-> resp,
                      error |-> last_error, sleeps |-> sleeps, counted |-> Counted(r, ok)]
        /\ f_results' = count_result(f_results, r, ok)
        /\ f_batch' = Tail(f_batch)
        /\ f_pc' = "loop"
        /\ f_attempt' = 0
        /\ f_last_error' = no_error
        /\ f_sleeps' = <<>>
        /\ f_calls' = 0

\* the start of the run up to the loop; no article found: the run is about to
\* return
FilterStart ==
    /\ AllIdle
    /\ \E batch \in fetch_unfiltered_articles(BATCH_SIZE) :
          /\ f_batch' = batch
          /\ f_pc' = IF batch = <<>> THEN "return" ELSE "loop"
          /\ f_results' = [no_results EXCEPT
                              !.found = [k \in 1..Len(batch) |-> batch[k].id]]
    /\ f_last' = NoItem
    /\ UNCHANGED <<articles, nextId, now, f_attempt, f_last_error, f_sleeps, f_calls,
                   sumVars, purgeVars, fetchVars, urlVars, parseVars, catVars, tableVars>>

\* if not articles: return
FilterReturn ==
    /\ f_pc = "return"
    /\ f_pc' = "idle"
    /\ UNCHANGED <<articles, nextId, now, f_batch, f_attempt, f_last_error, f_sleeps,
                   f_calls, f_last, f_results, sumVars, purgeVars, fetchVars, urlVars, parseVars,
                   catVars, tableVars>>

\* an article whose text is too short: filter_article returns before any call
FilterShort ==
    /\ f_pc = "loop"
    /\ f_batch # <<>>
    /\ Head(f_batch).content_len < MIN_CONTENT_LENGTH
    /\ FilterFinish(too_short_result, 0, NoResponse, no_error, <<>>)
    /\ UNCHANGED <<nextId, now, sumVars, purgeVars, fetchVars, urlVars, parseVars, catVars, tableVars>>

\* filter_article enters its retry loop
FilterBegin ==
    /\ f_pc = "loop"
    /\ f_batch # <<>>
    /\ Head(f_batch).content_len >= MIN_CONTENT_LENGTH
    /\ f_pc' = "attempt"
    /\ f_attempt' = 1
    /\ f_last_error' = no_error
    /\ f_sleeps' = <<>>
    /\ f_calls' = 0
    /\ UNCHANGED <<articles, nextId, now, f_batch, f_last, f_results, sumVars,
                   purgeVars, fetchVars, urlVars, parseVars, catVars, tableVars>>

\* range(1, MAX_RETRIES + 1), one attempt longer
in_range_and_one(attempt) == attempt <= MAX_RETRIES + 1

\* for attempt in range(1, MAX_RETRIES + 1)
in_range(attempt) == attempt <= MAX_RETRIES

\* one attempt: the call (or what follows it in the try block) raises an error
\* of E, or returns no text or text that does not parse to a non-empty object,
\* or returns a response of R
FilterAttempt(R, E) ==
    /\ f_pc = "attempt"
    /\ \/ \E e \in E :                         \* raised: the sleep, the next attempt
            LET sleeps == Append(f_sleeps, sleep_after_error(e))
            IN  IF in_range(f_attempt + 1)
                THEN /\ f_attempt' = f_attempt + 1
                     /\ f_last_error' = Raised(e)
                     /\ f_sleeps' = sleeps
                     /\ f_calls' = f_calls + 1
                     /\ UNCHANGED <<articles, f_pc, f_batch, f_last, f_results>>
                ELSE FilterFinish(after_loop(Raised(e)), f_calls + 1, NoResponse,
                                  Raised(e), sleeps)
       \/ FilterFinish(after_loop(f_last_error), f_calls + 1, NoResponse,
                       f_last_error, f_sleeps)  \* break
       \/ \E r \in R :
            FilterFinish(IF NonEmpty(r) THEN Decision(r) ELSE after_loop(f_last_error),
                         f_calls + 1, r, f_last_error, f_sleeps)
    /\ UNCHANGED <<nextId, now, sumVars, purgeVars, fetchVars, urlVars, parseVars, catVars, tableVars>>

\* after the loop: the clean-up of old rejected articles (which may raise inside
\* delete_rejected_articles), and the end of the run
FilterCleanup ==
    /\ f_pc = "loop"
    /\ f_batch = <<>>
    /\ \/ \E late_us \in BOOLEAN : articles' = delete_rejected_articles(late_us)
       \/ articles' = articles
    /\ f_pc' = "idle"
    /\ f_last' = NoItem
    /\ f_results' = no_results
    /\ UNCHANGED <<nextId, now, f_batch, f_attempt, f_last_error, f_sleeps, f_calls,
                   sumVars, purgeVars, fetchVars, urlVars, parseVars, catVars, tableVars>>

-----------------------------------------------------------------------------
(* summarize_articles.py: process_articles *)

\* update_article_summary: the table after the update
update_article_summary(id, summary) ==
    IF articles[id] = NoRow THEN articles
    ELSE [articles EXCEPT ![id] =
            [@ EXCEPT !.summary_60 = summary, !.is_summarized = TRUE,
                      !.summary_generated_at = now]]

\* mark_article_skipped: the table after the update
mark_article_skipped(id) ==
    IF articles[id] = NoRow THEN articles
    ELSE [articles EXCEPT ![id] =
            [@ EXCEPT !.is_summarized = TRUE, !.summary_generated_at = now]]

\* the word-count test without its upper limit
AtLeastMin(word_count) == SUM_MIN_WORDS <= word_count

\* the word-count test of generate_summary
InBand(word_count) == SUM_MIN_WORDS <= word_count /\ word_count <= SUM_MAX_WORDS

\* the loop body after generate_summary returned (NULL: no summary); either
\* update may raise inside its function
SumFinish(summary, seen, sleeps) ==
    \E ok \in BOOLEAN :
        /\ articles' = IF ~ok THEN articles
                       ELSE IF summary # NULL
                            THEN update_article_summary(Head(s_batch).id, summary)
                            ELSE mark_article_skipped(Head(s_batch).id)
        /\ s_last' = [id |-> Head(s_batch).id, summary |-> summary, calls |-> Len(seen),
                      seen |-> seen, sleeps |-> sleeps, updated |-> ok]
        /\ s_batch' = Tail(s_batch)
        /\ s_pc' = "loop"
        /\ s_attempt' = 0
        /\ s_seen' = <<>>
        /\ s_sleeps' = <<>>

\* the start of the run up to the loop; no article found: the run returns
SumStart ==
    /\ AllIdle
    /\ \E batch \in fetch_approved_unsummarized_articles(SUM_BATCH_SIZE) :
          /\ s_batch' = batch
          /\ s_pc' = IF batch = <<>> THEN "idle" ELSE "loop"
    /\ s_last' = NoItem
    /\ UNCHANGED <<articles, nextId, now, s_attempt, s_seen, s_sleeps, filterVars,
                   purgeVars, fetchVars, urlVars, parseVars, catVars, tableVars>>

\* the loop body up to generate_summary: insufficient content is marked skipped
\* without a call, else generate_summary enters its retry loop
SumItem ==
    /\ s_pc = "loop"
    /\ s_batch # <<>>
    /\ IF Head(s_batch).content_len < SUM_MIN_CONTENT_LENGTH
       THEN SumFinish(NULL, <<>>, <<>>)
       ELSE /\ s_pc' = "attempt"
            /\ s_attempt' = 0
            /\ s_seen' = <<>>
            /\ s_sleeps' = <<>>
            /\ UNCHANGED <<articles, s_batch, s_last>>
    /\ UNCHANGED <<nextId, now, filterVars, purgeVars, fetchVars, urlVars, parseVars, catVars, tableVars>>

\* for attempt in range(MAX_RETRIES)
sum_in_range(attempt) == attempt < MAX_RETRIES

\* the except branch: time.sleep(2 ** attempt) unless the attempt is the last
backoff(sleeps, attempt) ==
    IF attempt < MAX_RETRIES - 1 THEN Append(sleeps, 1000 * 2 ^ attempt) ELSE sleeps

\* the band test taken as passed
accept_any(word_count) == TRUE

\* a text of word_count words is returned as the summary
accepted(word_count) == InBand(word_count)

\* one attempt: the call raises (RAISED), returns no text (NULL), or a text of
\* W words
SumAttempt(W) ==
    /\ s_pc = "attempt"
    /\ \E w \in W \cup {NULL, RAISED} :
          LET seen == Append(s_seen, w)
              sleeps == IF w = RAISED THEN backoff(s_sleeps, s_attempt) ELSE s_sleeps
          IN  IF w \notin {NULL, RAISED} /\ accepted(w)
              THEN SumFinish(w, seen, sleeps)
              ELSE IF sum_in_range(s_attempt + 1)
                   THEN /\ s_attempt' = s_attempt + 1
                        /\ s_seen' = seen
                        /\ s_sleeps' = sleeps
                        /\ UNCHANGED <<articles, s_pc, s_batch, s_last>>
                   ELSE SumFinish(NULL, seen, sleeps)
    /\ UNCHANGED <<nextId, now, filterVars, purgeVars, fetchVars, urlVars, parseVars, catVars, tableVars>>

\* the end of the loop
SumEnd ==
    /\ s_pc = "loop"
    /\ s_batch = <<>>
    /\ s_pc' = "idle"
    /\ s_last' = NoItem
    /\ UNCHANGED <<articles, nextId, now, s_batch, s_attempt, s_seen, s_sleeps,
                   filterVars, purgeVars, fetchVars, urlVars, parseVars, catVars, tableVars>>

-----------------------------------------------------------------------------
(* purge_data.py: purge_old_articles inside main *)

no_stats == [deleted_by_age |-> 0, deleted_by_count |-> 0, remaining |-> 0]
no_trace == [phase1 |-> "none", phase2 |-> "none", logs |-> "none", metrics |-> "none"]

\* the or_ filter of phase 1 with .lte in place of .lt
OldOrAtCutoff(cutoff) ==
    {i \in Rows : \/ articles[i].published_at # NULL /\ articles[i].published_at <= cutoff
                  \/ articles[i].published_at = NULL /\ articles[i].created_at <= cutoff}

\* the rows of the or_ filter of phase 1
OldArticles(cutoff) ==
    {i \in Rows : \/ articles[i].published_at # NULL /\ articles[i].published_at < cutoff
                  \/ articles[i].published_at = NULL /\ articles[i].created_at < cutoff}

\* .eq('is_deleted', False)
NotDeleted == {i \in Rows : ~articles[i].is_deleted}

\* the oldest_response query without the is_deleted condition
oldest_any(limit) == Query(Rows, PublishedAsc, limit)

\* the oldest_response query without its .order() clauses
unordered_articles(limit) == Query(NotDeleted, Unordered, limit)

\* the oldest_response query of phase 2
oldest_articles(limit) == Query(NotDeleted, PublishedAsc, limit)

\* the excess, one short
excess_less_one(current_count) == current_count - MAX_ARTICLES_COUNT - 1

\* excess_count of phase 2
excess_count(current_count) == current_count - MAX_ARTICLES_COUNT

\* phase 1's except branch, had it logged without raising
Phase1Logged ==
    /\ p_pc' = "phase2"
    /\ p_trace' = [p_trace EXCEPT !.phase1 = "failed"]
    /\ UNCHANGED <<articles, p_cutoff, p_old_count, p_total, p_stats>>

\* phase 1's except branch: logs and raises; main logs and goes on
Phase1Raised ==
    /\ p_pc' = "aux"
    /\ p_trace' = [p_trace EXCEPT !.phase1 = "failed"]
    /\ UNCHANGED <<articles, p_cutoff, p_old_count, p_total, p_stats>>

\* the loop of phase 1 without its safety check
no_safety_limit(total_deleted, old_article_count) == FALSE

\* if total_deleted >= old_article_count + 100
safety_limit_reached(total_deleted, old_article_count) ==
    total_deleted >= old_article_count + SAFETY_MARGIN

\* the start of the run and the count query of phase 1
PurgeStart ==
    /\ AllIdle
    /\ p_cutoff' = now - MAX_ARTICLE_AGE_DAYS
    /\ p_stats' = no_stats
    /\ p_total' = 0
    /\ \/ /\ p_old_count' = Cardinality(OldArticles(p_cutoff'))
          /\ IF p_old_count' > 0
             THEN p_pc' = "phase1" /\ p_trace' = [no_trace EXCEPT !.phase1 = "running"]
             ELSE p_pc' = "phase2" /\ p_trace' = [no_trace EXCEPT !.phase1 = "done"]
       \/ /\ p_old_count' = 0                   \* the count query raised
          /\ p_pc' = "aux"
          /\ p_trace' = [no_trace EXCEPT !.phase1 = "failed"]
    /\ UNCHANGED <<articles, nextId, now, filterVars, sumVars, fetchVars, urlVars, parseVars, catVars, tableVars>>

\* one turn of the while loop of phase 1
Phase1Batch ==
    /\ p_pc = "phase1"
    /\ \/ \E q \in Query(OldArticles(p_cutoff), Unordered, batch_size) :
            IF q = <<>>
            THEN /\ p_pc' = "phase2"
                 /\ p_stats' = [p_stats EXCEPT !.deleted_by_age = p_total]
                 /\ p_trace' = [p_trace EXCEPT !.phase1 = "done"]
                 /\ UNCHANGED <<articles, p_total, p_cutoff, p_old_count>>
            ELSE /\ articles' = DeleteIds(Range(q))
                 /\ p_total' = p_total + Len(q)
                 /\ IF safety_limit_reached(p_total', p_old_count)
                    THEN /\ p_pc' = "phase2"
                         /\ p_stats' = [p_stats EXCEPT !.deleted_by_age = p_total']
                         /\ p_trace' = [p_trace EXCEPT !.phase1 = "done"]
                    ELSE UNCHANGED <<p_pc, p_stats, p_trace>>
                 /\ UNCHANGED <<p_cutoff, p_old_count>>
       \/ Phase1Raised                          \* the select or the delete raised
    /\ UNCHANGED <<nextId, now, filterVars, sumVars, fetchVars, urlVars, parseVars, catVars, tableVars>>

\* the start of the run over a store whose count may be anything
PurgeStartAnyCount ==
    /\ AllIdle
    /\ p_cutoff' = now - MAX_ARTICLE_AGE_DAYS
    /\ p_stats' = no_stats
    /\ p_total' = 0
    /\ \/ /\ p_old_count' \in 0..MaxId
          /\ IF p_old_count' > 0
             THEN p_pc' = "phase1" /\ p_trace' = [no_trace EXCEPT !.phase1 = "running"]
             ELSE p_pc' = "phase2" /\ p_trace' = [no_trace EXCEPT !.phase1 = "done"]
       \/ /\ p_old_count' = 0                   \* the count query raised
          /\ p_pc' = "aux"
          /\ p_trace' = [no_trace EXCEPT !.phase1 = "failed"]
    /\ UNCHANGED <<articles, nextId, now, filterVars, sumVars, fetchVars, urlVars, parseVars, catVars, tableVars>>

\* one turn of the while loop of phase 1 over a store whose delete may leave
\* the rows in place
Phase1BatchAnyStore ==
    /\ p_pc = "phase1"
    /\ \/ \E q \in Query(OldArticles(p_cutoff), Unordered, batch_size) :
            IF q = <<>>
            THEN /\ p_pc' = "phase2"
                 /\ p_stats' = [p_stats EXCEPT !.deleted_by_age = p_total]
                 /\ p_trace' = [p_trace EXCEPT !.phase1 = "done"]
                 /\ UNCHANGED <<articles, p_total, p_cutoff, p_old_count>>
            ELSE /\ articles' \in {DeleteIds(Range(q)), articles}
                 /\ p_total' = p_total + Len(q)
                 /\ IF safety_limit_reached(p_total', p_old_count)
                    THEN /\ p_pc' = "phase2"
                         /\ p_stats' = [p_stats EXCEPT !.deleted_by_age = p_total']
                         /\ p_trace' = [p_trace EXCEPT !.phase1 = "done"]
                    ELSE UNCHANGED <<p_pc, p_stats, p_trace>>
                 /\ UNCHANGED <<p_cutoff, p_old_count>>
       \/ Phase1Raised                          \* the select or the delete raised
    /\ UNCHANGED <<nextId, now, filterVars, sumVars, fetchVars, urlVars, parseVars, catVars, tableVars>>

\* phase 2
Phase2 ==
    /\ p_pc = "phase2"
    /\ \/ LET current_count == Cardinality(NotDeleted)
          IN  IF current_count > MAX_ARTICLES_COUNT
              THEN \E q \in oldest_articles(excess_count(current_count)) :
                     /\ articles' = DeleteIds(Range(q))
                     /\ p_stats' = [p_stats EXCEPT !.deleted_by_count = Len(q)]
                     /\ p_pc' = "final"
                     /\ p_trace' = [p_trace EXCEPT !.phase2 = "done"]
              ELSE /\ p_pc' = "final"
                   /\ p_trace' = [p_trace EXCEPT !.phase2 = "done"]
                   /\ UNCHANGED <<articles, p_stats>>
       \/ /\ p_pc' = "aux"                      \* a store call raised: logs and raises
          /\ p_trace' = [p_trace EXCEPT !.phase2 = "failed"]
          /\ UNCHANGED <<articles, p_stats>>
    /\ UNCHANGED <<nextId, now, p_cutoff, p_old_count, p_total, filterVars, sumVars,
                   fetchVars, urlVars, parseVars, catVars, tableVars>>

\* the final count; a failure of it is logged and the stats are returned
FinalCount ==
    /\ p_pc = "final"
    /\ \/ p_stats' = [p_stats EXCEPT !.remaining = Cardinality(NotDeleted)]
       \/ p_stats' = p_stats
    /\ p_pc' = "aux"
    /\ UNCHANGED <<articles, nextId, now, p_cutoff, p_old_count, p_total, p_trace,
                   filterVars, sumVars, fetchVars, urlVars, parseVars, catVars, tableVars>>

\* purge_old_fetch_logs with an except branch that raises: main stops
purge_old_fetch_logs_raising ==
    /\ p_pc = "aux"
    /\ \/ /\ fetch_logs' = {d \in fetch_logs : ~(d < now - LOG_RETENTION_DAYS)}
          /\ p_trace' = [p_trace EXCEPT !.logs = "done"]
          /\ p_pc' = "metrics"
       \/ /\ UNCHANGED fetch_logs
          /\ p_trace' = [p_trace EXCEPT !.logs = "failed"]
          /\ p_pc' = "idle"
    /\ UNCHANGED <<articles, nextId, now, p_cutoff, p_old_count, p_total, p_stats,
                   filterVars, sumVars, fetchVars, urlVars, parseVars, catVars,
                   storage_metrics>>

\* main, step 2: the logs created before the cutoff go; a store call that
\* raises is logged and 0 is returned
purge_old_fetch_logs ==
    /\ p_pc = "aux"
    /\ \/ /\ fetch_logs' = {d \in fetch_logs : ~(d < now - LOG_RETENTION_DAYS)}
          /\ p_trace' = [p_trace EXCEPT !.logs = "done"]
       \/ /\ UNCHANGED fetch_logs
          /\ p_trace' = [p_trace EXCEPT !.logs = "failed"]
    /\ p_pc' = "metrics"
    /\ UNCHANGED <<articles, nextId, now, p_cutoff, p_old_count, p_total, p_stats,
                   filterVars, sumVars, fetchVars, urlVars, parseVars, catVars,
                   storage_metrics>>

\* main, step 3: the metrics measured before the cutoff go; a delete that raises
\* is logged and 0 is returned
purge_old_storage_metrics ==
    /\ p_pc = "metrics"
    /\ \/ /\ storage_metrics' =
                {d \in storage_metrics : ~(d < now - METRICS_RETENTION_DAYS)}
          /\ p_trace' = [p_trace EXCEPT !.metrics = "done"]
       \/ /\ UNCHANGED storage_metrics
          /\ p_trace' = [p_trace EXCEPT !.metrics = "failed"]
    /\ p_pc' = "record"
    /\ UNCHANGED <<articles, nextId, now, p_cutoff, p_old_count, p_total, p_stats,
                   filterVars, sumVars, fetchVars, urlVars, parseVars, catVars,
                   fetch_logs>>

\* main, step 4 and the summary: the call of the store's record_storage_metrics
\* (a failure of it is logged), and the end of the run
vacuum_database ==
    /\ p_pc = "record"
    /\ p_pc' = "idle"
    /\ p_cutoff' = 0
    /\ p_old_count' = 0
    /\ p_total' = 0
    /\ p_stats' = no_stats
    /\ p_trace' = no_trace
    /\ UNCHANGED <<articles, nextId, now, filterVars, sumVars, fetchVars, urlVars,
                   parseVars, catVars, tableVars>>

-----------------------------------------------------------------------------
(* filter_content.py: parse_filter_response.  A text is a sequence of tokens:
   the punctuation of Punct, and words (keys, values, true, True, 9, json) *)

DQ == "\""
SQ == "'"
\* the three backticks of a code fence
FENCE == "<fence>"
Ws == {" ", "\n"}
Punct == {"{", "}", "[", "]", ":", ",", DQ, SQ, FENCE} \cup Ws
JsonLiterals == {"true", "false", "null"}
JsonNumbers == {"5", "9"}

\* \w[\w-]*
IsWord(t) == t \notin Punct

MinOf(S) == CHOOSE i \in S : \A j \in S : i <= j
MaxOf(S) == CHOOSE i \in S : \A j \in S : i >= j

\* the first place at or after i that holds no white space; Len(u) + 1: none
SkipWs(u, i) ==
    LET at == {j \in i..Len(u) : u[j] \notin Ws}
    IN  IF at = {} THEN Len(u) + 1 ELSE MinOf(at)

\* the first place after i that holds t; 0: none
NextOf(u, i, t) ==
    LET at == {j \in (i + 1)..Len(u) : u[j] = t}
    IN  IF at = {} THEN 0 ELSE MinOf(at)

\* str.strip()
Strip(u) ==
    LET at == {j \in 1..Len(u) : u[j] \notin Ws}
    IN  IF at = {} THEN <<>> ELSE SubSeq(u, MinOf(at), MaxOf(at))

\* str.rstrip(', \t\n')
RStripCommas(u) ==
    LET at == {j \in 1..Len(u) : u[j] \notin Ws \cup {","}}
    IN  IF at = {} THEN <<>> ELSE SubSeq(u, 1, MaxOf(at))

\* re.sub(r'^<fence>(?:json)?\s*\n?', '', text)
StripFenceStart(u) ==
    IF u # <<>> /\ u[1] = FENCE
    THEN LET i == IF Len(u) >= 2 /\ u[2] = "json" THEN 3 ELSE 2
         IN  SubSeq(u, SkipWs(u, i), Len(u))
    ELSE u

\* re.sub(r'\n?<fence>\s*$', '', text)
StripFenceEnd(u) ==
    LET at == {j \in 1..Len(u) : u[j] = FENCE /\ SkipWs(u, j + 1) = Len(u) + 1}
    IN  IF at = {} THEN u
        ELSE LET j == MinOf(at)
             IN  SubSeq(u, 1, IF j > 1 /\ u[j - 1] = "\n" THEN j - 2 ELSE j - 1)

\* json.loads: what the scanner makes of the value that starts at u[i], inside
\* depth - 1 containers.  st: "ok" (val, and next, the place after the value),
\* "err" (JSONDecodeError), "rec" (RecursionError: containers nested deeper
\* than the interpreter allows)
JsonValue(t, s) == [t |-> t, s |-> s]
Scanned(st, next, val) == [st |-> st, next |-> next, val |-> val]
ScanError == Scanned("err", 0, JsonValue("none", <<>>))
ScanRecursion == Scanned("rec", 0, JsonValue("none", <<>>))

RECURSIVE ScanValue(_, _, _), ScanPairs(_, _, _, _), ScanElements(_, _, _)

ScanValue(u, i, depth) ==
    IF i > Len(u) THEN ScanError
    ELSE IF u[i] = DQ
    THEN LET j == NextOf(u, i, DQ)
         IN  IF j = 0 \/ \E k \in (i + 1)..(j - 1) : u[k] = "\n" THEN ScanError
             ELSE Scanned("ok", j + 1, JsonValue("str", SubSeq(u, i + 1, j - 1)))
    ELSE IF u[i] \in JsonLiterals THEN Scanned("ok", i + 1, JsonValue("lit", <<u[i]>>))
    ELSE IF u[i] \in JsonNumbers THEN Scanned("ok", i + 1, JsonValue("num", <<u[i]>>))
    ELSE IF u[i] = "{"
    THEN IF depth > RECURSION_LIMIT THEN ScanRecursion
         ELSE LET j == SkipWs(u, i + 1)
              IN  IF j <= Len(u) /\ u[j] = "}"
                  THEN Scanned("ok", j + 1, [t |-> "obj", s |-> <<>>, pairs |-> <<>>])
                  ELSE ScanPairs(u, j, depth, <<>>)
    ELSE IF u[i] = "["
    THEN IF depth > RECURSION_LIMIT THEN ScanRecursion
         ELSE LET j == SkipWs(u, i + 1)
              IN  IF j <= Len(u) /\ u[j] = "]"
                  THEN Scanned("ok", j + 1, JsonValue("arr", <<>>))
                  ELSE ScanElements(u, j, depth)
    ELSE ScanError

\* the pairs of an object from the key at u[i] on
ScanPairs(u, i, depth, acc) ==
    IF i > Len(u) \/ u[i] # DQ THEN ScanError
    ELSE LET key == ScanValue(u, i, depth)
             colon == SkipWs(u, key.next)
         IN  IF key.st # "ok" \/ colon > Len(u) \/ u[colon] # ":" THEN ScanError
             ELSE LET v == ScanValue(u, SkipWs(u, colon + 1), depth + 1)
                      after == SkipWs(u, v.next)
                      pairs == Append(acc, [k |-> key.val.s,
                                            v |-> JsonValue(v.val.t, v.val.s)])
                  IN  IF v.st # "ok" THEN Scanned(v.st, 0, JsonValue("none", <<>>))
                      ELSE IF after > Len(u) THEN ScanError
                      ELSE IF u[after] = "}"
                      THEN Scanned("ok", after + 1,
                                   [t |-> "obj", s |-> <<>>, pairs |-> pairs])
                      ELSE IF u[after] = ","
                      THEN ScanPairs(u, SkipWs(u, after + 1), depth, pairs)
                      ELSE ScanError

\* the elements of an array from the value at u[i] on
ScanElements(u, i, depth) ==
    LET v == ScanValue(u, i, depth + 1)
        after == SkipWs(u, v.next)
    IN  IF v.st # "ok" THEN Scanned(v.st, 0, JsonValue("none", <<>>))
        ELSE IF after > Len(u) THEN ScanError
        ELSE IF u[after] = "]" THEN Scanned("ok", after + 1, JsonValue("arr", <<>>))
        ELSE IF u[after] = "," THEN ScanElements(u, SkipWs(u, after + 1), depth)
        ELSE ScanError

\* json.loads(s)
json_loads(s) ==
    LET v == ScanValue(s, SkipWs(s, 1), 1)
    IN  IF v.st = "ok" /\ SkipWs(s, v.next) <= Len(s) THEN ScanError ELSE v

\* what parse_filter_response and its helper give: a dict, None, or an
\* exception that leaves the function
Parsed(pairs) == [kind |-> "dict", pairs |-> pairs]
ParsedNone == [kind |-> "none", pairs |-> <<>>]
ParsedRaise == [kind |-> "raise", pairs |-> <<>>]

\* _try_parse: catches JSONDecodeError and ValueError
try_parse(s) ==
    LET v == json_loads(s)
    IN  IF v.st = "rec" THEN ParsedRaise
        ELSE IF v.st = "ok" /\ v.val.t = "obj" THEN Parsed(v.val.pairs)
        ELSE ParsedNone

\* 'if result: return result', or an exception on its way out
Returns(r) == r.kind = "raise" \/ (r.kind = "dict" /\ r.pairs # <<>>)

\* _normalise, one substitution after the other
RECURSIVE SubKeys(_, _), SubValues(_, _), SubTrailingCommas(_, _)

\* re.sub(r'\bTrue\b', 'true', s), and False, None
SubLiterals(s) ==
    [i \in 1..Len(s) |-> IF s[i] = "True" THEN "true"
                         ELSE IF s[i] = "False" THEN "false"
                         ELSE IF s[i] = "None" THEN "null"
                         ELSE s[i]]

\* re.sub(r"'(\w[\w-]*)'\s*:", r'"\1":', s) from s[i] on
SubKeys(s, i) ==
    IF i > Len(s) THEN <<>>
    ELSE LET colon == SkipWs(s, i + 3)
         IN  IF /\ i + 2 <= Len(s)
                /\ s[i] = SQ /\ IsWord(s[i + 1]) /\ s[i + 2] = SQ
                /\ colon <= Len(s) /\ s[colon] = ":"
             THEN <<DQ, s[i + 1], DQ, ":">> \o SubKeys(s, colon + 1)
             ELSE <<s[i]>> \o SubKeys(s, i + 1)

\* re.sub(r":\s*'([^']*?)'", r': "\1"', s) from s[i] on
SubValues(s, i) ==
    IF i > Len(s) THEN <<>>
    ELSE LET open == SkipWs(s, i + 1)
             close == NextOf(s, open, SQ)
         IN  IF s[i] = ":" /\ open <= Len(s) /\ s[open] = SQ /\ close # 0
             THEN <<":", " ", DQ>> \o SubSeq(s, open + 1, close - 1) \o <<DQ>>
                  \o SubValues(s, close + 1)
             ELSE <<s[i]>> \o SubValues(s, i + 1)

\* re.sub(r',\s*}', '}', s) from s[i] on
SubTrailingCommas(s, i) ==
    IF i > Len(s) THEN <<>>
    ELSE LET brace == SkipWs(s, i + 1)
         IN  IF s[i] = "," /\ brace <= Len(s) /\ s[brace] = "}"
             THEN <<"}">> \o SubTrailingCommas(s, brace + 1)
             ELSE <<s[i]>> \o SubTrailingCommas(s, i + 1)

\* _normalise without the substitutions for single quotes
normalise_literals_only(s) == SubTrailingCommas(SubLiterals(s), 1)

normalise(s) == SubTrailingCommas(SubValues(SubKeys(SubLiterals(s), 1), 1), 1)

\* re.search(r'\{[^{}]*\}', candidate, re.DOTALL): <<>> stands for no match
search_object(candidate) ==
    LET Closes(i) == {j \in (i + 1)..Len(candidate) :
                        /\ candidate[j] = "}"
                        /\ \A k \in (i + 1)..(j - 1) : candidate[k] \notin {"{", "}"}}
        at == {i \in 1..Len(candidate) : candidate[i] = "{" /\ Closes(i) # {}}
    IN  IF at = {} THEN <<>>
        ELSE LET i == MinOf(at) IN SubSeq(candidate, i, MinOf(Closes(i)))

\* step 4 for one candidate
extracted(candidate) ==
    LET match == search_object(candidate)
    IN  IF match = <<>> THEN ParsedNone
        ELSE LET result == try_parse(match)
             IN  IF Returns(result) THEN result ELSE try_parse(normalise(match))

\* r',?\s*"[^"]*"\s*:\s*"?[^"{}]*$' matches from fragment[i] to the end
TruncatedTail(fragment, i) ==
    LET open == SkipWs(fragment, IF fragment[i] = "," THEN i + 1 ELSE i)
        close == NextOf(fragment, open, DQ)
        colon == SkipWs(fragment, close + 1)
        val == SkipWs(fragment, colon + 1)
        rest == IF val <= Len(fragment) /\ fragment[val] = DQ THEN val + 1 ELSE val
    IN  /\ open <= Len(fragment) /\ fragment[open] = DQ
        /\ close # 0
        /\ colon <= Len(fragment) /\ fragment[colon] = ":"
        /\ \A k \in rest..Len(fragment) : fragment[k] \notin {DQ, "{", "}"}

\* step 5 for one candidate
closed(candidate) ==
    LET braces == {i \in 1..Len(candidate) : candidate[i] = "{"}
    IN  IF braces = {} THEN ParsedNone
        ELSE LET fragment == SubSeq(candidate, MinOf(braces), Len(candidate))
                 tails == {i \in 1..Len(fragment) : TruncatedTail(fragment, i)}
                 cut == IF tails = {} THEN fragment
                        ELSE SubSeq(fragment, 1, MinOf(tails) - 1)
                 stripped == RStripCommas(cut)
             IN  try_parse(IF stripped # <<>> /\ stripped[Len(stripped)] = "}"
                           THEN stripped ELSE Append(stripped, "}"))

\* the first of the results, in the order the code computes them, that the
\* function returns (or that leaves it as an exception); None when there is none
RECURSIVE FirstReturned(_)
FirstReturned(results) ==
    IF results = <<>> THEN ParsedNone
    ELSE IF Returns(Head(results)) THEN Head(results)
    ELSE FirstReturned(Tail(results))

\* the steps with the normalised text parsed before the text itself
repair_steps_normalised_first(response_text) ==
    LET text == Strip(StripFenceEnd(StripFenceStart(Strip(response_text))))
        normed == normalise(text)
    IN  <<try_parse(normed), try_parse(text), extracted(text), extracted(normed),
          closed(normed), closed(text)>>

\* what steps 2 to 5 give, in the order the code takes them
repair_steps(response_text) ==
    LET text == Strip(StripFenceEnd(StripFenceStart(Strip(response_text))))
        normed == normalise(text)
    IN  <<try_parse(text), try_parse(normed), extracted(text), extracted(normed),
          closed(normed), closed(text)>>

parse_filter_response(response_text) ==
    IF response_text = <<>> THEN ParsedNone
    ELSE FirstReturned(repair_steps(response_text))

\* the response as filter_article reads it with result.get
Field(pairs, key) ==
    LET at == {i \in 1..Len(pairs) : pairs[i].k = <<key>>}
    IN  IF at = {} THEN <<"absent">> ELSE pairs[MaxOf(at)].v.s

\* a response, with how it was written
Input(shape, obj, style, fence, cut, text) ==
    [shape |-> shape, obj |-> obj, style |-> style, fence |-> fence,
     cut |-> cut, text |-> text]

NoInput == Input("none", <<>>, "json", "none", "none", <<>>)

NotParsed == [kind |-> "pending", pairs |-> <<>>]

\* no response is being parsed
NoParse == r_in = NoInput /\ r_out = NotParsed

-----------------------------------------------------------------------------
(* fetch_news.py: categorize_article.  Title, description and keywords are
   sequences of tokens: words, parts of words, and the space *)

\* config.py: CATEGORY_KEYWORDS, in the order of the dict, with the keywords of
\* each category that the words of the model can spell
CATEGORY_KEYWORDS ==
    <<[category |-> "machine-learning", keywords |-> {<<"ml", " ">>, <<"llm">>}],
      [category |-> "generative-ai",    keywords |-> {<<"claude">>}],
      [category |-> "robotics",         keywords |-> {<<"robot">>, <<"robot", "ics">>}],
      [category |-> "computer-vision",  keywords |-> {<<"computer", " ", "vision">>}],
      [category |-> "nlp",              keywords |-> {<<"nlp">>}],
      [category |-> "ethics",           keywords |-> {<<"bias">>}],
      [category |-> "research",         keywords |-> {<<"research">>}],
      [category |-> "industry",         keywords |-> {<<"startup">>}],
      [category |-> "hardware",         keywords |-> {<<"gpu">>}]>>

DEFAULT_CATEGORY == "general"

\* keyword in text
Contains(text, keyword) ==
    \E i \in 0..(Len(text) - Len(keyword)) :
        SubSeq(text, i + 1, i + Len(keyword)) = keyword

\* the last category with a keyword in the text
categorize_last_match(title, description) ==
    LET text == Lower(title \o <<" ">> \o description)
        hits == {i \in 1..Len(CATEGORY_KEYWORDS) :
                    \E keyword \in CATEGORY_KEYWORDS[i].keywords :
                        Contains(text, Lower(keyword))}
    IN  IF hits = {} THEN DEFAULT_CATEGORY
        ELSE CATEGORY_KEYWORDS[CHOOSE i \in hits : \A j \in hits : j <= i].category

RECURSIVE FirstCategory(_, _)
\* the loop over CATEGORY_KEYWORDS.items() from the i-th item on
FirstCategory(text, i) ==
    IF i > Len(CATEGORY_KEYWORDS) THEN DEFAULT_CATEGORY
    ELSE IF \E keyword \in CATEGORY_KEYWORDS[i].keywords : Contains(text, Lower(keyword))
    THEN CATEGORY_KEYWORDS[i].category
    ELSE FirstCategory(text, i + 1)

categorize_article(title, description) ==
    FirstCategory(Lower(title \o <<" ">> \o description), 1)

\* no article is being categorized
NoCategorize == c_in = <<>> /\ c_out = "none"

\* no fetch has been logged, no metrics recorded
NoTables == fetch_logs = {} /\ storage_metrics = {}

-----------------------------------------------------------------------------
(* The pipeline: fetch, filter, summarize and retention runs in any order *)

InitRuns ==
    /\ f_pc = "idle" /\ f_batch = <<>> /\ f_attempt = 0 /\ f_last_error = no_error
    /\ f_sleeps = <<>>
    /\ f_calls = 0 /\ f_last = NoItem /\ f_results = no_results
    /\ s_pc = "idle" /\ s_batch = <<>> /\ s_attempt = 0 /\ s_last = NoItem
    /\ s_seen = <<>> /\ s_sleeps = <<>>
    /\ p_pc = "idle" /\ p_cutoff = 0 /\ p_old_count = 0 /\ p_total = 0
    /\ p_stats = no_stats /\ p_trace = no_trace
    /\ i_pc = "idle" /\ ins_last = no_insert

Init ==
    /\ articles = [i \in Ids |-> NoRow]
    /\ nextId = 1
    /\ now = 0
    /\ InitRuns
    /\ NoParse
    /\ NoCategorize
    /\ NoTables
    /\ url1 = <<>> /\ url2 = <<>>

InsertArticle ==
    \E url \in LifecycleUrls, published_at \in {NULL, now}, content_len \in LifecycleLens :
        Insert(url, published_at, content_len)

FilterAttemptLifecycle == FilterAttempt(LifecycleResponses, LifecycleErrors)

SumAttemptLifecycle == SumAttempt(LifecycleWords)

Next ==
    \/ FetchStart
    \/ InsertArticle
    \/ FetchEnd
    \/ Tick
    \/ FilterStart
    \/ FilterReturn
    \/ FilterShort
    \/ FilterBegin
    \/ FilterAttemptLifecycle
    \/ FilterCleanup
    \/ SumStart
    \/ SumItem
    \/ SumAttemptLifecycle
    \/ SumEnd
    \/ PurgeStart
    \/ Phase1Batch
    \/ Phase2
    \/ FinalCount
    \/ purge_old_fetch_logs
    \/ purge_old_storage_metrics
    \/ vacuum_database

Spec == Init /\ [][Next]_vars

-----------------------------------------------------------------------------
(* The runs over a store that earlier runs have filled *)

\* the day of the runs
StoredDay == 2

\* a row in one of the conditions earlier runs leave rows in
StoredRow(id, fetched_at, published_at, status) ==
    LET new == [NewRow(id, [url_hash |-> <<"a", id>>, category |-> "general",
                            published_at |-> published_at, fetched_at |-> fetched_at,
                            content_len |-> IF status = "short" THEN 30 ELSE 120])
                EXCEPT !.created_at = fetched_at]
        rejected == [new EXCEPT !.is_filtered = TRUE, !.detected_language = "fr",
                                !.relevance_score = 5, !.filter_reason = Text("why")]
    IN  CASE status \in {"unfiltered", "short"} -> new
          [] status = "rejected" -> rejected
          [] status = "deleted"  -> [rejected EXCEPT !.is_deleted = TRUE]
          [] status = "approved" -> [new EXCEPT !.is_filtered = TRUE, !.is_approved = TRUE,
                                               !.detected_language = "en",
                                               !.relevance_score = 9,
                                               !.filter_reason = Text("why"),
                                               !.category = "robotics"]

StoredStatuses == {"unfiltered", "short", "rejected", "deleted", "approved"}

\* a store of up to MaxId rows, fetched before the day of the runs; Dated: the
\* rows have a published_at
StoredInit(Dated) ==
    /\ now = StoredDay
    /\ nextId = MaxId + 1
    /\ \E n \in 0..MaxId :
       \E fetched \in [1..n -> 0..(StoredDay - 1)] :
       \E published \in [1..n -> Dated] :
       \E status \in [1..n -> StoredStatuses] :
          articles = [i \in Ids |->
                        IF i <= n
                        THEN StoredRow(i, fetched[i],
                                       IF published[i] THEN fetched[i] ELSE NULL, status[i])
                        ELSE NoRow]
    /\ InitRuns
    /\ NoParse
    /\ NoCategorize
    /\ url1 = <<>> /\ url2 = <<>>

\* the logs and the metrics earlier runs leave: none, old ones, old and new ones
StoredLogs == {{}, {0}, {0, StoredDay}}

InitStored ==
    /\ StoredInit(BOOLEAN)
    /\ fetch_logs \in StoredLogs
    /\ storage_metrics \in StoredLogs

InitDated == StoredInit({TRUE}) /\ NoTables

NextPurge ==
    \/ PurgeStart
    \/ Phase1Batch
    \/ Phase2
    \/ FinalCount
    \/ purge_old_fetch_logs
    \/ purge_old_storage_metrics
    \/ vacuum_database

SpecPurge == InitStored /\ [][NextPurge]_vars

NextStored ==
    \/ FilterStart
    \/ FilterReturn
    \/ FilterShort
    \/ FilterBegin
    \/ FilterAttemptLifecycle
    \/ FilterCleanup
    \/ SumStart
    \/ SumItem
    \/ SumAttemptLifecycle
    \/ SumEnd
    \/ NextPurge

SpecStored == InitDated /\ [][NextStored]_vars

-----------------------------------------------------------------------------
(* Filter and summarizer runs over freshly fetched articles, with every response
   of the model *)

\* articles waiting for the filter
FilterRows == 1

InitFilter ==
    /\ now = 1
    /\ nextId = FilterRows + 1
    /\ \E len \in [1..FilterRows -> ContentLens] :
          articles = [i \in Ids |->
                        IF i <= FilterRows
                        THEN [NewRow(i, [url_hash |-> <<"a", i>>, category |-> "general",
                                         published_at |-> NULL, fetched_at |-> 0,
                                         content_len |-> len[i]])
                              EXCEPT !.created_at = 0]
                        ELSE NoRow]
    /\ InitRuns
    /\ NoParse
    /\ NoCategorize
    /\ NoTables
    /\ url1 = <<>> /\ url2 = <<>>

FilterAttemptAny == FilterAttempt(FilterResponses, FilterErrors)

SumAttemptAny == SumAttempt(SummaryWords)

NextFilter ==
    \/ FilterStart
    \/ FilterReturn
    \/ FilterShort
    \/ FilterBegin
    \/ FilterAttemptAny
    \/ FilterCleanup
    \/ SumStart
    \/ SumItem
    \/ SumAttemptAny
    \/ SumEnd

SpecFilter == InitFilter /\ [][NextFilter]_vars

-----------------------------------------------------------------------------
(* create_url_hash on a URL and on its variants *)

InitHash ==
    /\ articles = [i \in Ids |-> NoRow]
    /\ nextId = 1
    /\ now = 0
    /\ InitRuns
    /\ NoParse
    /\ NoCategorize
    /\ NoTables
    /\ url1 \in BaseUrls
    /\ url2 = url1

\* the variant differs in the case of one letter
ChangeCase ==
    /\ url2 = url1
    /\ \E i \in 1..Len(url1) :
          /\ url1[i] \in Letters
          /\ url2' = WithCase(url1, i)
    /\ UNCHANGED <<articles, nextId, now, filterVars, sumVars, purgeVars, fetchVars, url1,
                   parseVars, catVars, tableVars>>

\* the variant has a trailing slash more
AddTrailingSlash ==
    /\ url2 = url1
    /\ url2' = url1 \o <<"/">>
    /\ UNCHANGED <<articles, nextId, now, filterVars, sumVars, purgeVars, fetchVars, url1,
                   parseVars, catVars, tableVars>>

\* the variant has a tracking parameter more, somewhere in its query string
AddTracking ==
    /\ url2 = url1
    /\ \E tp \in TrackingParams : url2' \in WithTracking(url1, tp)
    /\ UNCHANGED <<articles, nextId, now, filterVars, sumVars, purgeVars, fetchVars, url1,
                   parseVars, catVars, tableVars>>

\* the variant has another value for a tracking parameter
ChangeTrackingValue ==
    /\ url2 = url1
    /\ \E i \in 1..Len(url1) :
          /\ url1[i] \in TrackingKeys
          /\ url2' = WithValue(url1, i)
    /\ UNCHANGED <<articles, nextId, now, filterVars, sumVars, purgeVars, fetchVars, url1,
                   parseVars, catVars, tableVars>>

NextHash ==
    \/ ChangeCase
    \/ AddTrailingSlash
    \/ AddTracking
    \/ ChangeTrackingValue

SpecHash == InitHash /\ [][NextHash]_vars

-----------------------------------------------------------------------------
(* parse_filter_response on the texts a model can answer with *)

Pair(k, t, s) == [k |-> <<k>>, v |-> JsonValue(t, s)]
Language == Pair("language", "str", <<"en">>)
IsEnglish == Pair("is_english", "lit", <<"true">>)
Score == Pair("relevance_score", "num", <<"9">>)
Reason == Pair("reason", "str", <<"About", " ", "AI">>)

\* the objects a response is written from
Objects ==
    {<<>>, <<Language>>, <<Score>>, <<Language, IsEnglish>>, <<IsEnglish, Reason>>,
     <<Language, Score, Reason>>, <<Score, Language, IsEnglish>>}

Styles == {"json", "python"}
Fences == {"none", "plain", "json"}

Quote(style) == IF style = "python" THEN SQ ELSE DQ

RenderValue(v, style) ==
    IF v.t = "str" THEN <<Quote(style)>> \o v.s \o <<Quote(style)>>
    ELSE IF v.t = "lit" /\ style = "python"
    THEN <<CASE v.s[1] = "true" -> "True" [] v.s[1] = "false" -> "False"
             [] OTHER -> "None">>
    ELSE v.s

RenderKey(p, style) == <<Quote(style), p.k[1], Quote(style), ":">>

RECURSIVE RenderPairs(_, _)
RenderPairs(pairs, style) ==
    IF pairs = <<>> THEN <<>>
    ELSE LET p == Head(pairs)
         IN  RenderKey(p, style) \o <<" ">> \o RenderValue(p.v, style)
             \o (IF Len(pairs) > 1 THEN <<",", " ">> ELSE <<>>)
             \o RenderPairs(Tail(pairs), style)

Render(obj, style) == <<"{">> \o RenderPairs(obj, style) \o <<"}">>

FenceOpen(fence) ==
    CASE fence = "none" -> <<>>
      [] fence = "plain" -> <<FENCE, "\n">>
      [] fence = "json" -> <<FENCE, "json", "\n">>

FenceClose(fence) == IF fence = "none" THEN <<>> ELSE <<"\n", FENCE>>

AllButLast(s) == SubSeq(s, 1, Len(s) - 1)

\* where the first n tokens of the object's text end: "before" the last value
\* (after its colon), "inside" it, after it with the object "unclosed", or
\* "elsewhere"
CutAt(obj, style, n) ==
    LET colon == Len(Render(AllButLast(obj), style)) - 1
                 + (IF Len(obj) > 1 THEN 2 ELSE 0)
                 + Len(RenderKey(obj[Len(obj)], style))
        all == Len(Render(obj, style))
    IN  IF obj = <<>> \/ n < colon THEN "elsewhere"
        ELSE IF n <= colon + 1 THEN "before"
        ELSE IF n <= all - 2 THEN "inside"
        ELSE "unclosed"

\* an object, as JSON or Python-style, fenced or not
ObjectInputs ==
    {Input("object", obj, style, fence, "none",
           FenceOpen(fence) \o Render(obj, style) \o FenceClose(fence)) :
        obj \in Objects, style \in Styles, fence \in Fences}

\* the output stopped after n tokens of the object
TruncatedInputs ==
    UNION {{Input("truncated", obj, style, fence, CutAt(obj, style, n),
                  FenceOpen(fence) \o SubSeq(Render(obj, style), 1, n)) :
              n \in 1..(Len(Render(obj, style)) - 1)} :
           obj \in Objects, style \in Styles, fence \in Fences}

\* the output stopped within a literal
PartialLiteralInputs ==
    {Input("truncated", <<Language, IsEnglish>>, style, "none", "inside",
           AllButLast(AllButLast(Render(<<Language, IsEnglish>>, style)))
           \o <<IF style = "python" THEN "Tr" ELSE "tr">>) : style \in Styles}

Repeat(s, n) == [i \in 1..(n * Len(s)) |-> s[((i - 1) % Len(s)) + 1]]

\* text that is no object, or an object among other text
OtherInputs ==
    {Input("other", <<>>, "json", "none", "none", text) :
        text \in {<<>>, <<" ">>, <<"Sorry">>, <<"9">>, <<"[", "9", "]">>,
                  <<"{", DQ, "language", DQ, ":", " ", DQ, "en", DQ, ",", "}">>,
                  <<"{", DQ, "meta", DQ, ":", " ", "{", DQ, "language", DQ, ":",
                    " ", DQ, "en", DQ, "}", "}">>,
                  <<"Here", ":", " ">> \o Render(<<Language, Score>>, "json")
                      \o <<" ", "Done">>,
                  <<"Here", ":", " ">> \o Render(<<Language, Score>>, "python")}
                 \cup {Repeat(<<"[">>, d) : d \in 1..(RECURSION_LIMIT + 1)}
                 \cup {Repeat(<<"{", DQ, "a", DQ, ":">>, d) :
                          d \in 1..(RECURSION_LIMIT + 1)}}

\* a strict JSON object whose reason holds a word that _normalise rewrites
Verdict == Pair("reason", "str", <<"True", " ", "story">>)

StrictInputs ==
    {Input("strict", obj, "json", fence, "none",
           FenceOpen(fence) \o Render(obj, "json") \o FenceClose(fence)) :
        obj \in {<<Verdict>>, <<Language, Verdict>>}, fence \in Fences}

ParseInputs ==
    ObjectInputs \cup TruncatedInputs \cup PartialLiteralInputs \cup OtherInputs
        \cup StrictInputs

InitParse ==
    /\ articles = [i \in Ids |-> NoRow]
    /\ nextId = 1
    /\ now = 0
    /\ InitRuns
    /\ url1 = <<>> /\ url2 = <<>>
    /\ r_in \in ParseInputs
    /\ r_out = NotParsed
    /\ NoCategorize
    /\ NoTables

\* filter_article hands the text of the response to parse_filter_response
ParseResponse ==
    /\ r_out = NotParsed
    /\ r_in.shape # "none"
    /\ r_out' = parse_filter_response(r_in.text)
    /\ UNCHANGED <<articles, nextId, now, filterVars, sumVars, purgeVars, fetchVars,
                   urlVars, r_in, catVars, tableVars>>

NextParse == ParseResponse

SpecParse == InitParse /\ [][NextParse]_vars

-----------------------------------------------------------------------------
(* categorize_article on the titles and descriptions of feed entries *)

\* longest title, in tokens
MaxTitleLen == 2

Words ==
    {"ml", "ML", "ht", "llm", "claude", "robot", "ROBOT", "ics", "computer", "vision",
     "nlp", "bias", "research", "RESEARCH", "startup", "gpu", "news", " "}

Texts(n) == UNION {[1..k -> Words] : k \in 0..n}

InitCategorize ==
    /\ articles = [i \in Ids |-> NoRow]
    /\ nextId = 1
    /\ now = 0
    /\ InitRuns
    /\ url1 = <<>> /\ url2 = <<>>
    /\ NoParse
    /\ c_in \in {<<title, description>> :
                    title \in Texts(MaxTitleLen), description \in Texts(1)}
    /\ c_out = "none"
    /\ NoTables

\* fetch_rss_feed builds the article of an entry
Categorize ==
    /\ c_in # <<>>
    /\ c_out = "none"
    /\ c_out' = categorize_article(c_in[1], c_in[2])
    /\ UNCHANGED <<articles, nextId, now, filterVars, sumVars, purgeVars, fetchVars,
                   urlVars, parseVars, c_in, tableVars>>

NextCategorize == Categorize

SpecCategorize == InitCategorize /\ [][NextCategorize]_vars

-----------------------------------------------------------------------------
(* Every pass, and the writers of the logs and the metrics, over a store of one
   article, logs and metrics that earlier runs have left *)

InitOwnership ==
    /\ now = StoredDay
    /\ nextId = 2
    /\ \E fetched \in 0..(StoredDay - 1), status \in StoredStatuses :
          articles = [i \in Ids |->
                        IF i = 1
                        THEN [StoredRow(1, fetched, fetched, status)
                                EXCEPT !.url_hash = create_url_hash(<<"a">>)]
                        ELSE NoRow]
    /\ InitRuns
    /\ url1 = <<>> /\ url2 = <<>>
    /\ NoParse
    /\ NoCategorize
    /\ fetch_logs \in StoredLogs
    /\ storage_metrics \in StoredLogs

NextOwnership ==
    \/ FetchStart
    \/ InsertArticle
    \/ create_fetch_log
    \/ FetchEnd
    \/ record_metrics
    \/ NextStored

SpecOwnership == InitOwnership /\ [][NextOwnership]_vars

-----------------------------------------------------------------------------
(* Two filter runs that overlap: both have read their batch of unfiltered
   articles before either has written *)

\* the article handling of process_articles in the other run, for an article it
\* read while is_filtered was false: filter_article and update_article_filter
OverlappingPass ==
    /\ f_pc \in {"loop", "attempt"}
    /\ \E i \in Rows :
          /\ ~articles[i].is_filtered
          /\ ~articles[i].is_deleted
          /\ \E r \in IF articles[i].content_len < MIN_CONTENT_LENGTH
                       THEN {too_short_result}
                       ELSE {Decision(resp) : resp \in LifecycleResponses} :
                articles' = update_article_filter(i, r)
    /\ UNCHANGED <<nextId, now, filterVars, sumVars, purgeVars, fetchVars, urlVars,
                   parseVars, catVars, tableVars>>

NextOverlap ==
    \/ FilterStart
    \/ FilterReturn
    \/ FilterShort
    \/ FilterBegin
    \/ FilterAttemptLifecycle
    \/ FilterCleanup
    \/ OverlappingPass

SpecOverlap == InitOwnership /\ [][NextOverlap]_vars

-----------------------------------------------------------------------------
(* Retention runs over a store whose counts and deletes cannot be relied on *)

NextPhase1 ==
    \/ PurgeStartAnyCount
    \/ Phase1BatchAnyStore
    \/ Phase2
    \/ FinalCount
    \/ purge_old_fetch_logs
    \/ purge_old_storage_metrics
    \/ vacuum_database

\* the run is one sequential process: its loop goes on turning
SpecPhase1 == InitDated /\ [][NextPhase1]_vars /\ WF_vars(Phase1BatchAnyStore)

-----------------------------------------------------------------------------
(* Fetch runs that last over midnight, and retention runs *)

\* insert_articles on a candidate that fetch_rss_feed built the day before:
\* fetched_at is the day the feed was read, created_at the day of the insert
InsertAfterMidnight ==
    /\ i_pc = "run"
    /\ now > 0
    /\ \E url \in LifecycleUrls, published_at \in {NULL, now - 1} :
          LET c == [Candidate(url, published_at, 120) EXCEPT !.fetched_at = now - 1]
              dup == \E i \in Rows : articles[i].url_hash = c.url_hash
          IN  /\ dup \/ nextId <= MaxInserts
              /\ Upsert(c)
              /\ ins_last' = [url_hash |-> c.url_hash,
                              outcome |-> IF articles' # articles THEN "added" ELSE "skipped"]
    /\ UNCHANGED <<now, i_pc, filterVars, sumVars, purgeVars, urlVars, parseVars,
                   catVars, tableVars>>

NextAges ==
    \/ FetchStart
    \/ InsertArticle
    \/ InsertAfterMidnight
    \/ FetchEnd
    \/ Tick
    \/ NextPurge

SpecAges == Init /\ [][NextAges]_vars

-----------------------------------------------------------------------------
(* Filter runs over a store with articles fetched today, some of them within
   the first second of the day *)

CleanupRows == 2

InitCleanup ==
    /\ now = StoredDay
    /\ nextId = CleanupRows + 1
    /\ \E fetched \in [1..CleanupRows -> 0..StoredDay] :
       \E status \in [1..CleanupRows -> StoredStatuses] :
       \E early \in [1..CleanupRows -> BOOLEAN] :
          articles = [i \in Ids |->
                        IF i <= CleanupRows
                        THEN [StoredRow(i, fetched[i], fetched[i], status[i])
                                EXCEPT !.fetched_early = early[i]]
                        ELSE NoRow]
    /\ InitRuns
    /\ url1 = <<>> /\ url2 = <<>>
    /\ NoParse
    /\ NoCategorize
    /\ NoTables

NextCleanup ==
    \/ FilterStart
    \/ FilterReturn
    \/ FilterShort
    \/ FilterBegin
    \/ FilterAttemptLifecycle
    \/ FilterCleanup

SpecCleanup == InitCleanup /\ [][NextCleanup]_vars

-----------------------------------------------------------------------------
(* Summarizer runs, and an article that is delivered to the skip again *)

SkipRows == 2

InitSkips ==
    /\ now = 0
    /\ nextId = SkipRows + 1
    /\ \E status \in [1..SkipRows -> {"approved", "rejected"}] :
       \E len \in [1..SkipRows -> LifecycleLens] :
          articles = [i \in Ids |->
                        IF i <= SkipRows
                        THEN [StoredRow(i, 0, 0, status[i]) EXCEPT !.content_len = len[i]]
                        ELSE NoRow]
    /\ InitRuns
    /\ url1 = <<>> /\ url2 = <<>>
    /\ NoParse
    /\ NoCategorize
    /\ NoTables

\* mark_article_skipped called again for an article: a summarizer run that read
\* its batch before the article was handled by another run
SkipAgain ==
    /\ AllIdle
    /\ \E i \in Rows :
          /\ articles[i].is_approved
          /\ articles[i].is_summarized
          /\ articles' = mark_article_skipped(i)
    /\ UNCHANGED <<nextId, now, filterVars, sumVars, purgeVars, fetchVars, urlVars,
                   parseVars, catVars, tableVars>>

NextSkips ==
    \/ SumStart
    \/ SumItem
    \/ SumAttemptLifecycle
    \/ SumEnd
    \/ SkipAgain
    \/ Tick

SpecSkips == InitSkips /\ [][NextSkips]_vars

-----------------------------------------------------------------------------
(* Filter run after filter run over a store that takes in no new article *)

NextPasses ==
    \/ FilterStart
    \/ FilterReturn
    \/ FilterShort
    \/ FilterBegin
    \/ FilterAttemptLifecycle
    \/ FilterCleanup

\* the schedule starts run after run, and a run is one sequential process
SpecPasses ==
    /\ InitDated
    /\ [][NextPasses]_vars
    /\ WF_vars(FilterStart) /\ WF_vars(FilterReturn) /\ WF_vars(FilterShort)
    /\ WF_vars(FilterBegin) /\ WF_vars(FilterAttemptLifecycle)
    /\ WF_vars(FilterCleanup)

-----------------------------------------------------------------------------
(* Properties *)

Row(i) == articles[i]

\* C1: once phase 2 of purge_old_articles has completed, at most
\* MAX_ARTICLES_COUNT articles have is_deleted = false, whatever the number of
\* articles before the run.
C1_CountWithinLimit ==
    p_trace.phase2 = "done" => Cardinality(NotDeleted) <= MAX_ARTICLES_COUNT

\* phase 2 has completed on a store that held two articles more than the limit
C1_Witness ==
    /\ p_trace.phase2 = "done"
    /\ p_stats.deleted_by_count = 2
    /\ Cardinality(NotDeleted) = MAX_ARTICLES_COUNT

\* C2 as stated: when the article purge has ended, by return or by exception,
\* phase 2 has been executed.
C2_Phase2AlwaysRuns ==
    p_pc = "aux" => p_trace.phase2 # "none"

\* C2 as amended: when the article purge has ended, phase 2 has been executed
\* exactly if phase 1 completed without raising; after a failure of phase 1
\* the run goes on with the purges of main.
C2_Phase2IffPhase1Completed ==
    p_pc = "aux" => (p_trace.phase2 # "none" <=> p_trace.phase1 = "done")

\* phase 1 failed and main goes on without phase 2
C2_Witness ==
    p_pc = "aux" /\ p_trace.phase1 = "failed" /\ p_trace.phase2 = "none"

\* C3: a decision made from a parsed response has is_approved false whenever
\* its detected_language is not "en", and whenever its relevance_score is
\* below 6.
C3_RejectsNonEnglishAndLowScore ==
    (f_last # NoItem /\ f_last.parsed) =>
        /\ f_last.result.detected_language # "en" => ~f_last.result.is_approved
        /\ f_last.result.relevance_score < MIN_RELEVANCE_SCORE => ~f_last.result.is_approved

\* C4: for a parsed response, is_approved is exactly is_english and
\* is_relevant and relevance_score >= 6, a missing flag counting as false and
\* a missing score as 0.
C4_DecisionRule ==
    (f_last # NoItem /\ f_last.parsed) =>
        f_last.result.is_approved =
            (/\ f_last.resp.is_english = "true"
             /\ f_last.resp.is_relevant = "true"
             /\ (IF f_last.resp.relevance_score = NULL THEN 0
                 ELSE f_last.resp.relevance_score) >= 6)

\* a parsed response was approved, and one that lacks a flag was not
C4_Witness ==
    /\ f_last # NoItem
    /\ f_last.parsed
    /\ f_last.resp.is_english = ABSENT
    /\ f_last.resp.is_relevant = "true"
    /\ f_last.resp.relevance_score = 6
    /\ ~f_last.result.is_approved

\* C5: a row that is summarized with a summary_60 is approved, and the rows the
\* summarizer works on are approved, not summarized and not deleted.
C5_SummaryOnlyIfApproved ==
    /\ \A i \in Rows :
          (Row(i).is_summarized /\ Row(i).summary_60 # NULL) => Row(i).is_approved
    /\ \A k \in 1..Len(s_batch) :
          /\ Row(s_batch[k].id) # NoRow
          /\ Row(s_batch[k].id).is_approved
          /\ ~Row(s_batch[k].id).is_summarized
          /\ ~Row(s_batch[k].id).is_deleted

\* a summary has been written while another article waits for the filter
C5_Witness ==
    /\ \E i \in Rows : Row(i).summary_60 # NULL
    /\ \E j \in Rows : ~Row(j).is_filtered

\* C6: no step of any run takes a lifecycle flag of a row that stays in the
\* store from true to false.
C6_FlagsRatchet ==
    [][\A i \in Ids :
          (articles[i] # NoRow /\ articles'[i] # NoRow) =>
              /\ articles[i].is_filtered => articles'[i].is_filtered
              /\ articles[i].is_approved => articles'[i].is_approved
              /\ articles[i].is_summarized => articles'[i].is_summarized
              /\ articles[i].is_deleted => articles'[i].is_deleted]_vars

\* a filter run has handled an article while another row is approved and
\* summarized
C6_Witness ==
    /\ f_last # NoItem
    /\ \E i \in Rows : /\ i # f_last.id
                       /\ Row(i).is_approved
                       /\ Row(i).is_summarized

\* the rows a filter or summarizer run works on are not soft-deleted
C7_Selected ==
    /\ \A k \in 1..Len(f_batch) :
          Row(f_batch[k].id) # NoRow /\ ~Row(f_batch[k].id).is_deleted
    /\ \A k \in 1..Len(s_batch) :
          Row(s_batch[k].id) # NoRow /\ ~Row(s_batch[k].id).is_deleted

\* a soft-deleted row stays as it is, or the age-based purge removes it
C7_Stays ==
    \A i \in Ids :
        (articles[i] # NoRow /\ articles[i].is_deleted) =>
            \/ articles'[i] = articles[i]
            \/ articles'[i] = NoRow /\ p_pc = "phase1"

\* C7: a row with is_deleted = true is selected by no later filter run,
\* summarizer run or count-based retention query, and stays in the store until
\* the age-based purge removes it.
C7_DeletedExcluded == []C7_Selected /\ [][C7_Stays]_vars

\* the count-based purge has removed a row and left a soft-deleted one
C7_Witness ==
    /\ p_trace.phase2 = "done"
    /\ p_stats.deleted_by_count > 0
    /\ \E i \in Rows : Row(i).is_deleted

\* at most one row per url_hash
C8_UniqueHash ==
    \A i, j \in Rows : i # j => Row(i).url_hash # Row(j).url_hash

\* an upsert of a url_hash the store holds changes no row
C8_DuplicateIgnored ==
    (i_pc = "run" /\ i_pc' = "run" /\ \E i \in Rows : Row(i).url_hash = ins_last'.url_hash)
        => articles' = articles

\* C8: inserting a candidate whose url_hash the store holds creates no row and
\* leaves the rows unchanged; the store holds at most one row per url_hash.
C8_UpsertIgnoresDuplicates == []C8_UniqueHash /\ [][C8_DuplicateIgnored]_vars

\* a candidate with the url_hash of an approved row has been skipped
C8_Witness ==
    /\ ins_last.outcome = "skipped"
    /\ \E i \in Rows : Row(i).url_hash = ins_last.url_hash /\ Row(i).is_approved

\* C9: create_url_hash gives the same key for two URLs that differ only in
\* letter case, in a trailing slash, or in a tracking parameter or its value.
C9_SameKey == create_url_hash(url1) = create_url_hash(url2)

\* C10: an article whose text is shorter than 50 characters is rejected with
\* reason "Content too short", with no model call and no pacing sleep.
C10_TooShort ==
    (f_last # NoItem /\ f_last.content_len < MIN_CONTENT_LENGTH) =>
        /\ ~f_last.result.is_approved
        /\ f_last.result.filter_reason = Text("Content too short")
        /\ f_last.calls = 0
        /\ ~f_last.paced

\* an article of 49 characters has been handled
C10_Witness ==
    f_last # NoItem /\ f_last.content_len = 49

\* the calls of seen that raised before the last attempt of the loop
RaisedBeforeLast(seen) ==
    Cardinality({i \in 1..Len(seen) : i < MAX_RETRIES /\ seen[i] = RAISED})

\* C11: for one article, filter_article makes at most MAX_RETRIES model calls
\* and generate_summary makes at most MAX_RETRIES model calls; every failed call
\* is followed by a sleep and the next attempt, until the limit is reached (the
\* summarizer does not sleep after its last attempt).
C11_AtMostThreeCalls ==
    /\ f_pc = "attempt" =>
          /\ f_calls < MAX_RETRIES
          /\ f_attempt = f_calls + 1
          /\ Len(f_sleeps) = f_calls
    /\ f_last # NoItem =>
          /\ f_last.calls <= MAX_RETRIES
          /\ Len(f_last.sleeps) \in {f_last.calls - 1, f_last.calls}
          /\ (f_last.calls > 0 /\ Len(f_last.sleeps) = f_last.calls) =>
                f_last.calls = MAX_RETRIES
    /\ s_pc = "attempt" =>
          /\ Len(s_seen) < MAX_RETRIES
          /\ s_attempt = Len(s_seen)
          /\ Len(s_sleeps) = RaisedBeforeLast(s_seen)
    /\ s_last # NoItem =>
          /\ s_last.calls <= MAX_RETRIES
          /\ Len(s_last.sleeps) = RaisedBeforeLast(s_last.seen)
          /\ (s_last.calls > 0 /\ s_last.summary = NULL) => s_last.calls = MAX_RETRIES

\* every call of filter_article for an article has failed
C11_Witness ==
    /\ f_last # NoItem
    /\ f_last.calls = MAX_RETRIES
    /\ Len(f_last.sleeps) = MAX_RETRIES

\* every call of generate_summary for an article has failed
C11_SummarizerWitness ==
    /\ s_last # NoItem
    /\ s_last.seen = <<RAISED, RAISED, RAISED>>
    /\ s_last.sleeps = <<1000, 2000>>

\* C12: when every attempt of the model call fails, the stage returns its
\* default outcome and the loop goes on (the run stays in its loop, on this
\* article or a later one): filter_article returns is_approved
\* false, detected_language "unknown", relevance_score 0 and a filter_reason of
\* "API error: " and the first ERROR_TEXT_MAX tokens of the error text;
\* generate_summary returns no summary and the article is marked skipped.
C12_DefaultOutcome ==
    /\ (f_last # NoItem /\ Len(f_last.sleeps) = MAX_RETRIES) =>
          LET r == f_last.result
              msg == f_last.error.msg
              kept == IF Len(msg) < ERROR_TEXT_MAX THEN Len(msg) ELSE ERROR_TEXT_MAX
          IN  /\ f_pc \in {"loop", "attempt"}
              /\ ~r.is_approved
              /\ r.detected_language = "unknown"
              /\ r.relevance_score = 0
              /\ Len(r.filter_reason) = 1 + kept
              /\ r.filter_reason[1] = "API error: "
              /\ \A i \in 1..kept : r.filter_reason[i + 1] = msg[i]
    /\ (s_last # NoItem /\ s_last.seen = <<RAISED, RAISED, RAISED>>) =>
          /\ s_pc \in {"loop", "attempt"}
          /\ s_last.summary = NULL
          /\ Row(s_last.id).summary_60 = NULL
          /\ s_last.updated => Row(s_last.id).is_summarized

\* every call of filter_article has failed, the last with a text longer than
\* filter_reason keeps
C12_Witness ==
    /\ f_last # NoItem
    /\ Len(f_last.sleeps) = MAX_RETRIES
    /\ Len(f_last.error.msg) > ERROR_TEXT_MAX
    /\ f_last.updated
    /\ Row(f_last.id).filter_reason = <<"API error: ", "x", "x", "x">>

\* every call of generate_summary has failed and the article is marked skipped
C12_SummarizerWitness ==
    /\ s_last # NoItem
    /\ s_last.seen = <<RAISED, RAISED, RAISED>>
    /\ s_last.updated
    /\ Row(s_last.id).is_summarized

\* C13: when a failed model call carries a rate-limit hint in its error message
\* ("retry in N s", "retry in N ms", a retryDelay field), the delay slept before
\* the next attempt is the hinted value, not the fixed pacing delay.
C13_HintedDelaySlept ==
    /\ (f_pc = "attempt" /\ f_last_error.raised
                         /\ parse_retry_delay(f_last_error.msg) > 0) =>
          f_sleeps[Len(f_sleeps)] = parse_retry_delay(f_last_error.msg)
    /\ (f_last # NoItem /\ Len(f_last.sleeps) = MAX_RETRIES
                        /\ parse_retry_delay(f_last.error.msg) > 0) =>
          f_last.sleeps[MAX_RETRIES] = parse_retry_delay(f_last.error.msg)

\* the rows a step takes out of the store
Removed == {i \in Rows : articles'[i] = NoRow}

\* C14, the state: once phase 1 of a retention run has completed without
\* error, no article whose published_at precedes the cutoff is in the store.
C14_NoneOlderLeft ==
    p_trace.phase1 = "done" =>
        \A i \in Rows : ~(Row(i).published_at # NULL /\ Row(i).published_at < p_cutoff)

\* C14, the steps: phase 1 removes no article whose published_at is at or
\* after the cutoff.
C14_NoneNewerRemoved ==
    p_pc = "phase1" =>
        \A i \in Removed : ~(Row(i).published_at # NULL /\ Row(i).published_at >= p_cutoff)

\* C14: after phase 1 has completed without error no article published before
\* the cutoff (now - MAX_ARTICLE_AGE_DAYS) remains, and phase 1 itself removes
\* no article published at or after the cutoff.
C14_AgePurge == []C14_NoneOlderLeft /\ [][C14_NoneNewerRemoved]_vars

\* phase 1 has completed after removing two articles, and an article published
\* at the cutoff is still in the store
C14_Witness ==
    /\ p_trace.phase1 = "done"
    /\ p_stats.deleted_by_age = 2
    /\ \E i \in Rows : Row(i).published_at = p_cutoff

\* i comes before j when ordered by published_at ascending, NULL last, then by
\* created_at ascending
C15_Older(i, j) ==
    \/ Row(i).published_at # NULL /\ Row(j).published_at = NULL
    \/ /\ Row(i).published_at # NULL /\ Row(j).published_at # NULL
       /\ Row(i).published_at < Row(j).published_at
    \/ /\ Row(i).published_at = Row(j).published_at
       /\ Row(i).created_at < Row(j).created_at

\* C15, the steps: a phase 2 that completes on a store of MAX_ARTICLES_COUNT + k
\* non-deleted articles, k > 0, removes exactly k of them, none of them younger
\* than a non-deleted article it leaves, and reports k; with k <= 0 it removes
\* nothing.
C15_Phase2Step ==
    (p_pc = "phase2" /\ p_pc' = "final") =>
        LET k == Cardinality(NotDeleted) - MAX_ARTICLES_COUNT
        IN  IF k > 0
            THEN /\ Cardinality(Removed) = k
                 /\ Removed \subseteq NotDeleted
                 /\ \A d \in Removed : \A r \in NotDeleted \ Removed : ~C15_Older(r, d)
                 /\ p_stats'.deleted_by_count = k
            ELSE Removed = {} /\ p_stats'.deleted_by_count = 0

\* C15, the state: when no article was over the age limit, phase 1 has deleted
\* none.
C15_NoneByAge ==
    (p_trace.phase1 = "done" /\ p_old_count = 0) => p_stats.deleted_by_age = 0

C16_OutOfBand(w) == w \notin {NULL, RAISED} /\ (w < 50 \/ w > 75)

\* C16: a response of the summarizer's model whose word count is outside the
\* accepted band (42 words, say) is rejected and the call is retried; when the
\* attempts are exhausted the article ends with is_summarized = true and no
\* summary_60.
C16_OutOfBandRejected ==
    /\ s_pc = "attempt" =>
          \A i \in 1..Len(s_seen) : s_seen[i] \in {NULL, RAISED} \/ C16_OutOfBand(s_seen[i])
    /\ (s_last # NoItem /\ s_last.calls > 0 /\ C16_OutOfBand(s_last.seen[s_last.calls])) =>
          /\ s_last.calls = MAX_RETRIES
          /\ s_last.summary = NULL
          /\ Row(s_last.id).summary_60 = NULL
          /\ s_last.updated => Row(s_last.id).is_summarized

\* three responses of 42 words, and the article is marked skipped
C16_Witness ==
    /\ s_last # NoItem
    /\ s_last.seen = <<42, 42, 42>>
    /\ s_last.updated
    /\ Row(s_last.id).is_summarized
    /\ Row(s_last.id).summary_60 = NULL

\* C19, the state: no filter or summarizer run has ended with articles of its
\* batch left.
C19_BatchDone ==
    /\ f_pc = "idle" => f_batch = <<>>
    /\ s_pc = "idle" => s_batch = <<>>

\* C19, the steps: with articles left in the batch a run goes on, on the same
\* article or on the next.
C19_RunGoesOn ==
    /\ (f_pc # "idle" /\ f_batch # <<>>) =>
          f_pc' # "idle" /\ f_batch' \in {f_batch, Tail(f_batch)}
    /\ (s_pc # "idle" /\ s_batch # <<>>) =>
          s_pc' # "idle" /\ s_batch' \in {s_batch, Tail(s_batch)}

\* C19: in a filter or summarizer run a failure on one article (failed model
\* calls, an unparseable response, a failed store update) never aborts the
\* batch: every later article of the batch is still processed.
C19_FailureIsolated == []C19_BatchDone /\ [][C19_RunGoesOn]_vars

\* the filter run is calling the model for an article after every model call
\* and the store update of the article before it have failed
C19_Witness ==
    /\ f_last # NoItem
    /\ Len(f_last.sleeps) = MAX_RETRIES
    /\ ~f_last.updated
    /\ f_pc = "attempt"
    /\ Head(f_batch).id # f_last.id

\* the summarizer run is calling the model for an article after the store
\* update of the article before it has failed
C19_SummarizerWitness ==
    /\ s_last # NoItem
    /\ ~s_last.updated
    /\ s_pc = "attempt"
    /\ Head(s_batch).id # s_last.id

\* C20: in the counts of a filter run an article is counted as failed only
\* when no answer was got for it (no parsed response, or a failed store
\* update), and a rejection the model returned in a parsed response is counted
\* as a language, relevance or short-content rejection, never as failed.
C20_FailedMeansNoAnswer ==
    f_last # NoItem =>
        /\ f_last.counted = "failed" => (~f_last.parsed \/ ~f_last.updated)
        /\ (f_last.parsed /\ f_last.updated /\ ~f_last.result.is_approved) =>
              f_last.counted \in {"rejected_language", "rejected_relevance", "rejected_short"}


\* a repair step gave an object / an object with at least one key
YieldsObject(r) == r.kind = "dict"
YieldsKeys(r) == r.kind = "dict" /\ r.pairs # <<>>

C17_TruncatedWitness ==
    /\ r_in.shape = "truncated" /\ r_in.cut = "inside" /\ r_in.style = "json"
    /\ r_in.obj = <<Language, Score, Reason>>
    /\ r_out = Parsed(<<Language, Score>>)

\* C18: for every text, parse_filter_response ends with a decision object or
\* the parse-failure value, and never raises to filter_article.
C18_NeverRaises ==
    r_out # NotParsed => r_out.kind \in {"dict", "none"}

\* C21: in a filter run the pacing sleep follows an article exactly when a
\* model call was made for it: every article with a call is followed by the
\* sleep, and no article that was short-circuited is.
C21_PacedIffCalled ==
    f_last # NoItem => (f_last.paced <=> f_last.calls > 0)

\* the order of the categories
CanonicalOrder ==
    <<"machine-learning", "generative-ai", "robotics", "computer-vision", "nlp",
      "ethics", "research", "industry", "hardware">>

\* a keyword of the category occurs in the lower-cased title and description
\* (joined by a space)
Occurs(category) ==
    \E i \in 1..Len(CATEGORY_KEYWORDS) :
        /\ CATEGORY_KEYWORDS[i].category = category
        /\ \E keyword \in CATEGORY_KEYWORDS[i].keywords :
              Contains(Lower(c_in[1] \o <<" ">> \o c_in[2]), keyword)

\* C22: categorize_article returns the first category, in the order
\* machine-learning, generative-ai, robotics, computer-vision, nlp, ethics,
\* research, industry, hardware, that has a keyword occurring in the lower-cased
\* title and description, and "general" when no keyword of any category occurs.
C22_FirstMatchWins ==
    c_out # "none" =>
        IF \E i \in 1..Len(CanonicalOrder) : Occurs(CanonicalOrder[i])
        THEN \E i \in 1..Len(CanonicalOrder) :
                /\ c_out = CanonicalOrder[i]
                /\ Occurs(CanonicalOrder[i])
                /\ \A j \in 1..(i - 1) : ~Occurs(CanonicalOrder[j])
        ELSE c_out = "general"

\* a title with a keyword of hardware and, in capitals, one of robotics
C22_Witness ==
    /\ c_in = <<(<<"gpu", "ROBOT">>), (<<"news">>)>>
    /\ c_out = "robotics"

\* C23, the state: the purge of the metrics comes after an attempt to purge the
\* logs, and the end of the run after an attempt at both.
C23_BothAttempted ==
    /\ p_pc = "metrics" => p_trace.logs \in {"done", "failed"}
    /\ p_pc = "record" =>
          p_trace.logs \in {"done", "failed"} /\ p_trace.metrics \in {"done", "failed"}

\* C23, the steps: a retention run ends only after the two auxiliary purges,
\* and each of them, failed or not, is followed by the next step of the run.
C23_RunGoesOn ==
    /\ (p_pc # "idle" /\ p_pc' = "idle") => p_pc = "record"
    /\ p_pc = "aux" => p_pc' \in {"aux", "metrics"}
    /\ p_pc = "metrics" => p_pc' \in {"metrics", "record"}

\* C23: in a retention run a failure of the purge of the fetch logs or of the
\* storage metrics does not stop the run, and the two purges are attempted
\* whether or not the article purge failed.
C23_AuxiliaryPurges == []C23_BothAttempted /\ [][C23_RunGoesOn]_vars

\* the article purge and the purge of the logs have failed, and the purge of
\* the metrics has removed the old metrics
C23_Witness ==
    /\ p_pc = "record"
    /\ p_trace.phase1 = "failed"
    /\ p_trace.logs = "failed"
    /\ p_trace.metrics = "done"
    /\ fetch_logs = {0, StoredDay}
    /\ storage_metrics = {StoredDay}

\* the lifecycle flags of a row
Flags(row) == <<row.is_filtered, row.is_approved, row.is_summarized, row.is_deleted>>

\* C24, a step outside a retention run: every row of articles, of fetch_logs and
\* of storage_metrics is still there after it.
C24_NoRowRemoved ==
    p_pc = "idle" =>
        /\ \A i \in Ids : articles[i] # NoRow => articles'[i] # NoRow
        /\ fetch_logs \subseteq fetch_logs'
        /\ storage_metrics \subseteq storage_metrics'

\* C24, a step of a retention run: a row it leaves in place keeps its flags.
C24_FlagsKept ==
    p_pc # "idle" =>
        \A i \in Ids :
            (articles[i] # NoRow /\ articles'[i] # NoRow) =>
                Flags(articles'[i]) = Flags(articles[i])

\* C24: only the retention run removes rows (the fetch, filter and summarizer
\* passes remove no row of articles, fetch_logs or storage_metrics; the cleanup
\* of the filter only sets is_deleted), and the retention run changes no
\* lifecycle flag of a row it leaves in place.
C24_Ownership == [][C24_NoRowRemoved /\ C24_FlagsKept]_vars

\* the stored article is gone and its log with it, after a fetch has added an
\* article and a log of today and a filter pass has handled the new article
C24_Witness ==
    /\ p_pc = "record"
    /\ articles[1] = NoRow
    /\ articles[2] # NoRow /\ articles[2].is_filtered
    /\ fetch_logs = {StoredDay}
    /\ p_trace.logs = "done"

\* what the filter writes on a row
FilterFields(row) ==
    <<row.is_filtered, row.is_approved, row.detected_language, row.relevance_score,
      row.filter_reason>>

\* C25: a write of a filter pass to a row another filter pass has already
\* advanced (both read it while is_filtered was false) is a no-op: is_filtered,
\* is_approved and the filter metadata keep the values of the first write.
C25_LaterWriteNoOp ==
    [][\A i \in Ids :
          (articles[i] # NoRow /\ articles[i].is_filtered /\ articles'[i] # NoRow) =>
              FilterFields(articles'[i]) = FilterFields(articles[i])]_vars

\* C26: in every state of the store, under any sequence of fetch, filter,
\* summarizer and retention passes, an article with is_approved = true has
\* is_filtered = true.
C26_ApprovedIsFiltered ==
    \A i \in Rows : articles[i].is_approved => articles[i].is_filtered

\* an approved article next to one no filter pass has seen, a day after the
\* first fetch
C26_Witness ==
    /\ now > 0
    /\ \E i, j \in Rows :
          /\ articles[i].is_approved /\ articles[i].is_summarized
          /\ ~articles[j].is_filtered

\* while the loop of phase 1 turns, its running total is below the counted
\* number plus the margin
C27_BelowLimit == p_pc = "phase1" => p_total < p_old_count + SAFETY_MARGIN

\* the loop stops on a batch query without rows, and otherwise only with the
\* running total at the counted number plus the margin, or above
C27_Stops ==
    p_pc = "phase1" =>
        /\ OldArticles(p_cutoff) = {} => p_pc' # "phase1"
        /\ (p_pc' = "phase2" /\ OldArticles(p_cutoff) # {}) =>
               p_total' >= p_old_count + SAFETY_MARGIN

\* C27: the batch loop of phase 1 terminates for every behaviour of the store:
\* it stops when a batch query returns no rows, and when the store keeps
\* returning rows (its deletes take no effect, its count is wrong) it stops once
\* the running total of deleted ids has reached the counted number plus the
\* margin.
C27_Phase1Terminates ==
    /\ []C27_BelowLimit
    /\ [][C27_Stops]_vars
    /\ (p_pc = "phase1") ~> (p_pc # "phase1")

\* the loop has stopped at the limit with old rows still in the store
C27_Witness ==
    /\ p_pc = "phase2"
    /\ p_trace.phase1 = "done"
    /\ OldArticles(p_cutoff) # {}
    /\ p_total >= p_old_count + SAFETY_MARGIN

\* after a phase 1 that went through, no article without published_at that was
\* fetched before the cutoff is left
C28_OldFetchedGone ==
    (p_pc = "phase2" /\ p_trace.phase1 = "done") =>
        \A i \in Rows :
            articles[i].published_at = NULL => ~(articles[i].fetched_at < p_cutoff)

\* phase 1 deletes an article without published_at only if it was fetched
\* before the cutoff
C28_OnlyOldFetched ==
    p_pc = "phase1" =>
        \A i \in Rows :
            (articles[i].published_at = NULL /\ articles'[i] = NoRow) =>
                articles[i].fetched_at < p_cutoff

\* C28: for an article whose published_at is null, phase 1 decides on
\* fetched_at: the article is deleted if and only if its fetched_at precedes
\* the cutoff.
C28_DecidesOnFetchedAt == []C28_OldFetchedGone /\ [][C28_OnlyOldFetched]_vars

\* C29: every relevance_score the filter stage has stored on a row is an
\* integer from 0 to 10, whatever the relevance_score of the model's response.
C29_ScoreInRange ==
    \A i \in Rows : articles[i].is_filtered => articles[i].relevance_score \in 0..10

\* C30: every summary_60 the summarizer has stored has between 50 and 75 words
\* (a summary stands for its count_words, taken as generate_summary takes it:
\* of the text without its surrounding double quotes, which is the text that
\* is tested, returned and stored); a response outside the band is never
\* stored.
C30_StoredInBand ==
    /\ \A i \in Rows :
          articles[i].summary_60 # NULL =>
              (50 <= articles[i].summary_60 /\ articles[i].summary_60 <= 75)
    /\ (s_last # NoItem /\ s_last.summary # NULL /\ s_last.updated) =>
          /\ s_last.summary = s_last.seen[s_last.calls]
          /\ Row(s_last.id).summary_60 = s_last.summary

\* a response of 76 words was passed over, the next of 75 words is stored
C30_Witness ==
    /\ s_last # NoItem
    /\ s_last.seen = <<76, 75>>
    /\ s_last.updated
    /\ Row(s_last.id).summary_60 = 75

\* C31: the cleanup of the filter run sets is_deleted = true only on rows with
\* is_filtered = true, is_approved = false and fetched_at before the start of
\* the current day; it never soft-deletes an approved article, an unfiltered
\* article or a reject fetched today, and it changes no other field of a row.
C31_CleanupFrame ==
    [][(f_pc = "loop" /\ f_batch = <<>>) =>
          \A i \in Ids :
              articles'[i] # articles[i] =>
                  /\ articles[i] # NoRow
                  /\ articles'[i] = [articles[i] EXCEPT !.is_deleted = TRUE]
                  /\ articles[i].is_filtered
                  /\ ~articles[i].is_approved
                  /\ articles[i].fetched_at < now]_vars

\* C32: every filter run that has started performs the cleanup of old rejected
\* articles, whatever it decided for its articles and however many unfiltered
\* articles it found (none included): a run ends only in its cleanup step.
C32_CleanupAlwaysRuns ==
    [][(f_pc # "idle" /\ f_pc' = "idle") => (f_pc = "loop" /\ f_batch = <<>>)]_vars

\* the article of the last filter step got no usable answer: every call raised,
\* or the response was empty or could not be parsed
C33_NoAnswer == f_last # NoItem /\ f_last.calls > 0 /\ ~f_last.parsed

\* such an article, once its update went through, is filtered and not approved
C33_Rejected ==
    (C33_NoAnswer /\ f_last.updated) =>
        /\ Row(f_last.id).is_filtered
        /\ ~Row(f_last.id).is_approved

\* a filtered article is in no batch a filter run selects, and stays filtered
C33_NeverSelectedAgain ==
    \A i \in Rows :
        articles[i].is_filtered =>
            /\ (f_pc = "idle" /\ f_pc' = "loop") =>
                   \A k \in 1..Len(f_batch') : f_batch'[k].id # i
            /\ articles'[i] # NoRow => articles'[i].is_filtered

\* C33: an article whose filter call failed on every attempt, or whose response
\* could not be parsed, is stored with is_filtered = true and is_approved =
\* false, and no later filter pass selects it again.
C33_FailureIsPermanent == []C33_Rejected /\ [][C33_NeverSelectedAgain]_vars

\* three calls raised, the article is stored as rejected
C33_Witness ==
    /\ C33_NoAnswer
    /\ f_last.calls = MAX_RETRIES
    /\ f_last.error.raised
    /\ f_last.updated
    /\ Row(f_last.id).is_filtered
    /\ ~Row(f_last.id).is_approved
    /\ \E j \in Rows : j # f_last.id /\ ~articles[j].is_filtered

\* the text parsed is strict JSON for the object it was written from
C34_StrictJson == r_in.shape \in {"object", "strict"} /\ r_in.style = "json"

\* C34 (as stated): the steps are tried in order and the result of the first
\* that yields an object is returned; a strict JSON object, fenced or not, the
\* object without fields included, is returned by the first step as it is.
C34_FirstObjectReturned ==
    r_out # NotParsed =>
        LET steps == repair_steps(r_in.text)
        IN  /\ YieldsObject(steps[1]) => r_out = steps[1]
            /\ C34_StrictJson => r_out = Parsed(r_in.obj)
            /\ \A i \in 1..6 :
                  (YieldsObject(steps[i]) /\ \A j \in 1..(i - 1) : steps[j].kind = "none")
                      => r_out = steps[i]

\* C34 (amended): the steps are tried in order and the result of the first that
\* yields an object with at least one field is returned; a strict JSON object
\* with at least one field, fenced or not, is returned by the first step as it
\* is, its strings untouched by the normalisation; the object without fields
\* goes through every step and is reported as a failure.
C34_FirstNonEmptyReturned ==
    r_out # NotParsed =>
        LET steps == repair_steps(r_in.text)
        IN  /\ YieldsKeys(steps[1]) => r_out = steps[1]
            /\ (C34_StrictJson /\ r_in.obj # <<>>) => r_out = Parsed(r_in.obj)
            /\ (C34_StrictJson /\ r_in.obj = <<>>) => r_out = ParsedNone
            /\ \A i \in 1..6 :
                  (YieldsKeys(steps[i]) /\ \A j \in 1..(i - 1) : ~Returns(steps[j]))
                      => r_out = steps[i]

\* a fenced strict JSON object is returned with the word True of its reason
\* as it was written, where the normalised text parses to another reason
C34_Witness ==
    /\ r_in.shape = "strict" /\ r_in.fence = "json"
    /\ r_in.obj = <<Language, Verdict>>
    /\ r_out = Parsed(<<Language, Verdict>>)
    /\ YieldsKeys(repair_steps(r_in.text)[2])
    /\ repair_steps(r_in.text)[2] # r_out

\* the article has been marked skipped
C35_Skipped(row) == row.is_summarized /\ row.summary_60 = NULL

\* C35: marking an article skipped is idempotent: a second mark_article_skipped
\* on the same article leaves every field of the row as the first left it, and
\* a skip never writes or clears summary_60.
C35_SkipIdempotent ==
    [][\A i \in Rows :
          /\ C35_Skipped(articles[i]) => articles'[i] = articles[i]
          /\ (s_pc = "idle" /\ s_pc' = "idle") =>
                 articles'[i].summary_60 = articles[i].summary_60]_vars

\* the last call for the article of the last filter step returned, with no text
\* or with text that gave no decision object
C36_EmptyAnswer ==
    /\ f_last # NoItem
    /\ f_last.calls = Len(f_last.sleeps) + 1
    /\ ~f_last.parsed

\* C36: when the model call of the filter succeeds but the response is empty or
\* cannot be interpreted, the model is not called again for the article:
\* exactly one call is made, and the default of a failed analysis is returned
\* (is_approved false, detected_language "unknown", reason "Failed to
\* analyze").
C36_OneCallThenDefault ==
    C36_EmptyAnswer =>
        /\ f_last.calls = 1
        /\ f_last.result = default_result

\* the five counters of the decisions, added up
C37_Counted ==
    f_results.approved + f_results.rejected_language + f_results.rejected_relevance
        + f_results.rejected_short + f_results.failed

\* the articles of the batch whose update went through: they were unfiltered
\* when the run selected them
C37_Updated ==
    {k \in 1..Len(f_results.found) :
        /\ articles[f_results.found[k]] # NoRow
        /\ articles[f_results.found[k]].is_filtered}

\* C37: at the end of a filter run every article of the batch has been counted
\* in exactly one of approved, rejected_language, rejected_relevance,
\* rejected_short and failed, so that the five counters add up to the size of
\* the batch, and processed is the number of articles whose update went
\* through.  During the run the same holds for the articles handled so far.
C37_CountersAddUp ==
    f_pc \in {"loop", "attempt"} =>
        /\ C37_Counted + Len(f_batch) = Len(f_results.found)
        /\ f_results.processed = Cardinality(C37_Updated)
        /\ f_batch = <<>> => C37_Counted = Len(f_results.found)

\* the end of a run over two articles: one approved, one whose update failed
C37_Witness ==
    /\ f_pc = "loop"
    /\ f_batch = <<>>
    /\ Len(f_results.found) = 2
    /\ f_results.processed = 1
    /\ f_results.approved = 1
    /\ f_results.failed = 1

\* the articles a filter run can select
Pending == {i \in Rows : ~articles[i].is_filtered /\ ~articles[i].is_deleted}

\* a store call of the filter run has failed: the select of the run (which
\* then found nothing where articles are pending) or the last update
C38_StoreFailed ==
    \/ f_pc = "return" /\ Pending # {}
    \/ f_last # NoItem /\ ~f_last.updated

\* a run has selected the BATCH_SIZE newest pending articles, or all of them
\* when they are fewer, and at its end it has marked as many as filtered when
\* every update went through
C38_PassMarks ==
    f_pc \in {"loop", "attempt"} =>
        LET selected == Len(f_results.found)
            pending == Cardinality(Pending) + f_results.processed
        IN  /\ selected = IF pending < BATCH_SIZE THEN pending ELSE BATCH_SIZE
            /\ (f_batch = <<>> /\ f_results.failed = 0) =>
                   Cardinality(C37_Updated) = selected

\* C38: with no new article coming in and the store calls going through,
\* repeated filter passes in the end leave no non-deleted article with
\* is_filtered = false; each pass marks min(BATCH_SIZE, pending) articles as
\* filtered, whatever the model answers and however its calls fail.
C38_BacklogDrains ==
    /\ []C38_PassMarks
    /\ (<>[](Pending = {}) \/ []<>C38_StoreFailed)

\* a second pass is at its end: the first marked BATCH_SIZE articles, the last
\* of them after three failed calls, and this one has marked the one left
C38_Witness ==
    /\ f_pc = "loop"
    /\ f_batch = <<>>
    /\ Pending = {}
    /\ Len(f_results.found) = 1
    /\ f_results.processed = 1
    /\ Cardinality({i \in Rows : articles[i].is_filtered
                                  /\ articles[i].filter_reason[1] = "API error: "}) >= 1
    /\ Cardinality({i \in Rows : articles[i].is_filtered}) = MaxId

\* the articles a summarizer run can select
Unsummarized ==
    {i \in Rows : articles[i].is_approved /\ ~articles[i].is_summarized
                                          /\ ~articles[i].is_deleted}

\* the filter loop has just handled an article whose update failed
C39_FilterUpdateFailed ==
    f_last' # f_last /\ f_last' # NoItem /\ ~f_last'.updated

\* the summarizer loop has just handled an article whose summary was generated
\* and not saved
C39_SummarySaveFailed ==
    s_last' # s_last /\ s_last' # NoItem /\ s_last'.summary # NULL /\ ~s_last'.updated

\* C39: a failed store update of a filter run, and a failed save of a generated
\* summary, leave the row of the article as it was (is_filtered, respectively
\* is_summarized, still false), and the article can be selected by the next
\* run of that stage; the clean-up that ends the filter run leaves it so.
C39_FailedUpdateLeavesRow ==
    /\ [][C39_FilterUpdateFailed =>
             /\ articles' = articles
             /\ ~articles'[f_last'.id].is_filtered
             /\ f_last'.id \in Pending']_vars
    /\ [][C39_SummarySaveFailed =>
             /\ articles' = articles
             /\ ~articles'[s_last'.id].is_summarized
             /\ articles'[s_last'.id].summary_60 = NULL
             /\ s_last'.id \in Unsummarized']_vars
    /\ [][(f_pc = "loop" /\ f_pc' = "idle") =>
             \A k \in 1..Len(f_results.found) :
                 f_results.found[k] \in Pending => f_results.found[k] \in Pending']_vars

\* a filter run is at its end with one update failed and one gone through: the
\* article of the failed one is the newest that the next run can select
C39_Witness ==
    /\ f_pc = "loop"
    /\ f_batch = <<>>
    /\ f_results.failed = 1
    /\ f_results.processed = 1
    /\ f_last # NoItem
    /\ ~f_last.updated
    /\ f_last.id \in Pending
    /\ \E batch \in fetch_unfiltered_articles(BATCH_SIZE) :
          batch # <<>> /\ \E k \in 1..Len(batch) : batch[k].id = f_last.id

\* a summarizer run has generated a summary that the store did not take: the
\* article is the one the next run can select
C39_SummaryCase ==
    /\ s_pc = "loop"
    /\ s_last # NoItem
    /\ s_last.summary # NULL
    /\ ~s_last.updated
    /\ \E batch \in fetch_approved_unsummarized_articles(SUM_BATCH_SIZE) :
          batch # <<>> /\ \E k \in 1..Len(batch) : batch[k].id = s_last.id

====
